---------------------------- MODULE Spec2Model ----------------------------
(***************************************************************************)
(* Synchronous, finalizer-driven cascading garbage collection              *)
(* (docs/proposals/synchronous-garbage-collection.md).                     *)
(*                                                                         *)
(* The key-value store, the watch stream, the garbage collector's          *)
(* owner/dependent graph (uidToNode), the dirtyQueue and the pool of       *)
(* processItem() workers are modelled as one state machine.                *)
(***************************************************************************)
EXTENDS Naturals, Integers, Sequences, FiniteSets, TLC

\* Object identities (uniqueID stands for the whole compound key).
Ids == {"A", "B", "C"}

None == "none"

\* An identity with no object in the store / no node in the graph.
Absent == [absent |-> TRUE]

\* No delete request / no store call in the last step.
NoResponse == [result |-> None]
NoStoreCall == [kind |-> None, id |-> None]

\* Workers pulling from the DirtyQueue.
NumWorkers == 2
Workers == 1..NumWorkers

\* The ItemProcessor pool of the garbage collector.
GCWorkers == {1, 2}

\* How many store calls (delete / patch) may fail transiently in one run.
MaxStoreErrors == 1

\* How many delete requests the API server receives in one run.
MaxRequests == 1

\* Standard finalizers (proposal, "Standard Finalizers").
GCFinalizer == "CollectingGarbage"
OrphanFinalizer == "orphan"

VARIABLES
    store,        \* key-value store: id -> object or None
    watch,        \* per-object ordered stream of undelivered events
    uidToNode,    \* ObjectGraph: id -> GraphNode or None
    dirtyQueue,   \* DirtyQueue: [queue, dirty, processing, shuttingDown]
    workerItem,   \* worker -> identity it holds the processing mark of, or None
    lastOp,       \* outcome of the queue operation of the last step (queue view)
    apiResponse,  \* outcome of the delete request of the last step, or None
    storeCall,    \* store call issued by ItemProcessor in the last step, or None
    storeErrors,  \* transient store-call failures so far
    requests,     \* delete requests received so far
    baselineChecks,   \* CheckRegistry: check ID -> versioned checks, newest first
    restrictedChecks, \* CheckRegistry: check ID -> versioned checks, newest first
    regCall,      \* the last call made on the CheckRegistry and what it returned
    initialNodeFn,    \* nodeinfo provider: is initialNodeFn set
    initialNode,      \* nodeinfo provider: cached initial node, or nil
    getNode,      \* caller -> progress, inputs and result of its GetNode call
    fnSuccesses,  \* how many times initialNodeFn has returned a node without error
    nodeUID,      \* nodeinfo provider: cached node UID, or nil
    getRef,       \* caller -> progress and result of its GetObjectRef / GetEventRef call
    matchCall,     \* the matcher, the value handed to its Match and what Match returned
    clock,            \* aggregator: the time a.clock.Now() returns
    expirationTimer,  \* aggregator: the time the expiration timer fires at
    buffer,           \* aggregator: events in the buffer channel
    cache,            \* aggregator: audit ID -> cache entry, or NilEntry
    cacheHead,        \* aggregator: first entry of the cache list, or NilEntry
    cacheTail,        \* aggregator: last entry of the cache list, or NilEntry
    entries,          \* aggregator: the cacheEntry objects on the heap
    sent,             \* aggregator: calls of delegate.ProcessEvents in the last step
    stopCh,           \* aggregator: the stop channel has been closed
    tickers,          \* Synchronizer: period -> first Ticker of the list, or NoTicker
    ticker,           \* the Ticker objects: [period, stopped, next], or unallocated
    count,            \* Run(): the count handed to the last tick()
    tick,             \* tick(): where the call stands and its local variables
    offers,           \* ticker -> Ticks offered to it by the tick() going on or last done
    observed,         \* tickers that a tick() has read as stopped
    receiving,        \* tickers with a receiver waiting on C
    sendResult,       \* what the select of the last step did, or NoSend
    wallClock,        \* readinessCheck: what time.Now() returns, in seconds
    errCh,            \* readinessCheck: the caller's error channel
    check,            \* readinessCheck: where the call stands and its local variables
    closedReads,      \* readinessCheck: receives that found the channel closed
    opts,             \* ForObjectCondition: the Opts of the call
    elapsed,          \* ForObjectCondition: seconds since start
    poll              \* ForObjectCondition: where the call stands and its local variables

\* State of the CheckRegistry and of the nodeinfo provider.
regVars == <<baselineChecks, restrictedChecks, regCall>>

\* The cached UID and the calls that use it.
uidVars == <<nodeUID, getRef>>

nodeVars == <<initialNodeFn, initialNode, getNode, fnSuccesses, uidVars>>

matchVars == <<matchCall>>

aggVars == <<clock, expirationTimer, buffer, cache, cacheHead, cacheTail,
             entries, sent, stopCh>>

\* State of the components other than the garbage collector.
tickVars == <<tickers, ticker, count, tick, offers, observed, receiving,
              sendResult>>

readyVars == <<wallClock, errCh, check, closedReads>>

waitVars == <<opts, elapsed, poll>>

otherVars == <<regVars, nodeVars, matchVars, aggVars, tickVars, readyVars,
               waitVars>>

vars == <<store, watch, uidToNode, dirtyQueue, workerItem, lastOp,
          apiResponse, storeCall, storeErrors, requests, otherVars>>

gcVars == <<store, watch, uidToNode, apiResponse, storeCall, storeErrors,
            requests, otherVars>>

\* The other components as constructed, before any call.
NoRegCall == [op |-> None]

RegistryIdle ==
    /\ baselineChecks = <<>>
    /\ restrictedChecks = <<>>
    /\ regCall = NoRegCall

\* Concurrent callers of the nodeinfo provider.
NumCallers == 2

Callers == 1..NumCallers

Nil == "nil"

IdleCall == [pc |-> "idle"]

ProviderIdle ==
    /\ initialNodeFn = FALSE
    /\ initialNode = Nil
    /\ getNode = [c \in Callers |-> IdleCall]
    /\ fnSuccesses = 0
    /\ nodeUID = Nil
    /\ getRef = [c \in Callers |-> IdleCall]

MatcherIdle == matchCall = [pc |-> "idle"]

\* Bounds of the aggregator model: the time to hold an event in the cache
\* (the ttl field, in ticks of the clock), the latest event timestamp, the
\* capacity of the buffer channel and the number of cache entries alive at
\* a time.
ttl == 1
MaxTimestamp == 1
MaxBuffer == 1
MaxEntries == 3

NilEntry == 0
EntryRefs == 1..MaxEntries
AuditIDs == {"a", "b", "c"}

\* A cacheEntry that is not allocated, or a fresh one.
NoEntry == [events |-> <<>>, prev |-> NilEntry, next |-> NilEntry]

\* NewAggregatorBackend() followed by the first statement of run().
AggregatorIdle ==
    /\ clock = 0
    /\ expirationTimer = ttl
    /\ buffer = <<>>
    /\ cache = [i \in AuditIDs |-> NilEntry]
    /\ cacheHead = NilEntry
    /\ cacheTail = NilEntry
    /\ entries = [e \in EntryRefs |-> NoEntry]
    /\ sent = <<>>
    /\ stopCh = FALSE

\* Bounds of the Synchronizer model: the Tickers ever created, the longest
\* period (in units of the granularity) and the modulus the uint32 count
\* is kept to.
MaxTickers == 3
MaxPeriod == 2
MaxCount == 2

TickerRefs == 1..MaxTickers
NoTicker == 0
Periods == 1..MaxPeriod

\* A Ticker that has not been created.
Unallocated == [period |-> 0, stopped |-> FALSE, next |-> NoTicker]

TickIdle == [pc |-> "idle", todo |-> {}, period |-> 0, t |-> NoTicker,
             next |-> NoTicker]

NoSend == [to |-> NoTicker, delivered |-> FALSE]

\* A Synchronizer with no Ticker, before Run() has counted.
SynchronizerIdle ==
    /\ tickers = [p \in Periods |-> NoTicker]
    /\ ticker = [t \in TickerRefs |-> Unallocated]
    /\ count = 0
    /\ tick = TickIdle
    /\ offers = [t \in TickerRefs |-> 0]
    /\ observed = {}
    /\ receiving = {}
    /\ sendResult = NoSend

\* Bounds of the readinessCheck model: serverStartTimeout in seconds, and
\* the receives on a closed channel that are counted.
ServerStartTimeout == 3
MaxClosedReads == 2

\* The error channel: open or closed, and the value a sender waits to hand
\* over ("none" when no sender waits).
OpenChannel == [closed |-> FALSE, value |-> "none"]

\* readinessCheck has been called: endTime is set and the loop test is next.
ReadinessIdle ==
    /\ wallClock = 0
    /\ errCh = OpenChannel
    /\ check = [pc |-> "loop", endTime |-> ServerStartTimeout, errCh |-> "errCh",
                after |-> 0, result |-> "none"]
    /\ closedReads = 0

\* Bounds of the ForObjectCondition model, in seconds: Opts.Timeout,
\* Opts.PollPeriod and the longest Retry-After delay of a fetch error.
PollTimeout == 3
PollPeriod == 1
MaxDelay == 2

\* Errors: the class, the Retry-After delay of an API error and whether
\* fmt.Errorf has wrapped it.  NoError is nil.
Err(class, delay) == [class |-> class, delay |-> delay, wrapped |-> FALSE]

NoError == Err("nil", 0)

\* ForObjectCondition has not been called: no Opts, nothing fetched.
WaitIdle ==
    /\ opts = [RetryNotFound |-> FALSE, DisableRetries |-> FALSE]
    /\ elapsed = 0
    /\ poll = [pc |-> "idle", lastFetchError |-> NoError, fetched |-> FALSE,
               done |-> FALSE, timedOut |-> FALSE, err |-> NoError,
               result |-> NoError]

OthersInit ==
    /\ RegistryIdle /\ ProviderIdle /\ MatcherIdle /\ AggregatorIdle
    /\ SynchronizerIdle /\ ReadinessIdle /\ WaitIdle

NoOp == [op |-> None, item |-> None, result |-> None]

(***************************************************************************)
(* DirtyQueue: a set-backed, deduplicating work queue.                     *)
(***************************************************************************)

RECURSIVE SeqCount(_, _)
SeqCount(s, x) ==
    IF s = <<>> THEN 0
    ELSE (IF Head(s) = x THEN 1 ELSE 0) + SeqCount(Tail(s), x)

SeqSet(s) == {s[k] : k \in 1..Len(s)}

EmptyQueue ==
    [queue |-> <<>>, dirty |-> {}, processing |-> {}, shuttingDown |-> FALSE]

\* Faulty variants of enqueue: no deduplication; items accepted after shutdown.
AddNoDedup(q, item) ==
    IF q.shuttingDown THEN q
    ELSE IF item \in q.processing THEN [q EXCEPT !.dirty = @ \cup {item}]
    ELSE [q EXCEPT !.dirty = @ \cup {item}, !.queue = Append(@, item)]

AddAfterShutdown(q, item) ==
    IF item \in q.dirty THEN q
    ELSE IF item \in q.processing THEN [q EXCEPT !.dirty = @ \cup {item}]
    ELSE [q EXCEPT !.dirty = @ \cup {item}, !.queue = Append(@, item)]

\* enqueue: refused after shutdown; a no-op for an identity already marked
\* dirty; an identity being processed is only marked dirty (re-queued by Done).
Add(q, item) ==
    IF q.shuttingDown THEN q
    ELSE IF item \in q.dirty THEN q
    ELSE IF item \in q.processing THEN [q EXCEPT !.dirty = @ \cup {item}]
    ELSE [q EXCEPT !.dirty = @ \cup {item}, !.queue = Append(@, item)]

AddResult(q, item) == IF q.shuttingDown THEN "QueueClosedError" ELSE "ok"

RECURSIVE AddAll(_, _)
AddAll(q, items) ==
    IF items = {} THEN q
    ELSE LET i == CHOOSE x \in items : TRUE
         IN  AddAll(Add(q, i), items \ {i})

CanGet(q) == ~q.shuttingDown /\ q.queue # <<>>

\* Faulty variant of dequeue: the processing mark is not taken
GetNoMark(q) ==
    [q EXCEPT !.queue = Tail(@), !.dirty = @ \ {Head(q.queue)}]

\* dequeue: the head leaves the queue and the dirty set and takes the
\* processing mark.
Get(q) ==
    [q EXCEPT !.queue = Tail(@),
              !.dirty = @ \ {Head(q.queue)},
              !.processing = @ \cup {Head(q.queue)}]

\* done: the processing mark is dropped; an identity marked dirty while it
\* was being processed is queued again.
Done(q, item) ==
    IF item \in q.dirty
    THEN [q EXCEPT !.processing = @ \ {item}, !.queue = Append(@, item)]
    ELSE [q EXCEPT !.processing = @ \ {item}]

ShutDown(q) == [q EXCEPT !.shuttingDown = TRUE]

\* every identity the queue knows of
Items(q) == SeqSet(q.queue) \cup q.dirty \cup q.processing

(***************************************************************************)
(* The queue seen by its clients: EventIngestor enqueues, workers dequeue  *)
(* and complete.                                                           *)
(***************************************************************************)

QEnqueue(i) ==
    /\ dirtyQueue' = Add(dirtyQueue, i)
    /\ lastOp' = [op |-> "enqueue", item |-> i, result |-> AddResult(dirtyQueue, i)]
    /\ UNCHANGED <<workerItem, gcVars>>

QGet(w) ==
    /\ workerItem[w] = None
    /\ IF CanGet(dirtyQueue)
       THEN /\ dirtyQueue' = Get(dirtyQueue)
            /\ workerItem' = [workerItem EXCEPT ![w] = Head(dirtyQueue.queue)]
            /\ lastOp' = [op |-> "get", item |-> Head(dirtyQueue.queue), result |-> "ok"]
       ELSE /\ dirtyQueue.shuttingDown
            /\ lastOp' = [op |-> "get", item |-> None, result |-> "QueueClosedError"]
            /\ UNCHANGED <<dirtyQueue, workerItem>>
    /\ UNCHANGED gcVars

QDone(w) ==
    /\ workerItem[w] # None
    /\ dirtyQueue' = Done(dirtyQueue, workerItem[w])
    /\ workerItem' = [workerItem EXCEPT ![w] = None]
    /\ lastOp' = [op |-> "done", item |-> workerItem[w], result |-> "ok"]
    /\ UNCHANGED gcVars

QShutDown ==
    /\ ~dirtyQueue.shuttingDown
    /\ dirtyQueue' = ShutDown(dirtyQueue)
    /\ lastOp' = [op |-> "shutdown", item |-> None, result |-> "ok"]
    /\ UNCHANGED <<workerItem, gcVars>>

InitQueue ==
    /\ dirtyQueue = EmptyQueue
    /\ workerItem = [w \in Workers |-> None]
    /\ lastOp = NoOp

InitGCIdle ==
    /\ store = [i \in Ids |-> Absent]
    /\ watch = [i \in Ids |-> <<>>]
    /\ uidToNode = [i \in Ids |-> Absent]
    /\ apiResponse = NoResponse
    /\ storeCall = NoStoreCall
    /\ storeErrors = 0
    /\ requests = 0

QueueInit == InitQueue /\ InitGCIdle /\ OthersInit

QueueNext ==
    \/ \E i \in Ids : QEnqueue(i)
    \/ \E w \in Workers : QGet(w)
    \/ \E w \in Workers : QDone(w)
    \/ QShutDown

SpecQueue == QueueInit /\ [][QueueNext]_vars

(***************************************************************************)
(* The key-value store and the API server's Delete().                      *)
(***************************************************************************)

Ref(o, b) == [owner |-> o, blocking |-> b]

Obj(owners) == [owners |-> owners, delTs |-> FALSE, fins |-> {}]

Event(type, obj) == [type |-> type, obj |-> obj]

\* Owner topologies the cluster starts with: a three-level chain, a fan
\* with one non-blocking dependent, a two-node cycle and a shared dependent.
Chain == [i \in Ids |-> CASE i = "A" -> {}
                          [] i = "B" -> {Ref("A", TRUE)}
                          [] i = "C" -> {Ref("B", TRUE)}]

Fan == [i \in Ids |-> CASE i = "A" -> {}
                        [] i = "B" -> {Ref("A", FALSE)}
                        [] i = "C" -> {Ref("A", TRUE)}]

Cycle == [i \in Ids |-> CASE i = "A" -> {Ref("B", TRUE)}
                          [] i = "B" -> {Ref("A", TRUE)}
                          [] i = "C" -> {}]

Shared == [i \in Ids |-> CASE i = "A" -> {}
                           [] i = "B" -> {}
                           [] i = "C" -> {Ref("A", TRUE), Ref("B", TRUE)}]

Topologies == {Chain, Fan, Cycle, Shared}

\* Scenario topologies: owner "A" with the single dependent "B", blocking or
\* not; "C" is an unrelated object.
Pair(blocking) == [i \in Ids |-> CASE i = "A" -> {}
                                  [] i = "B" -> {Ref("A", blocking)}
                                  [] i = "C" -> {}]

\* Owner "A" with the two dependents "B" and "C", blocking or not.
Star(blocking) == [i \in Ids |-> CASE i = "A" -> {}
                                  [] i = "B" -> {Ref("A", blocking)}
                                  [] i = "C" -> {Ref("A", blocking)}]

\* Writing obj back: an object with a deletion timestamp and no pending
\* finalizer leaves the store (Deleted event); any other write is a
\* Modified event.
Removed(obj) == obj.delTs /\ obj.fins = {}

StoreAfter(st, id, obj) ==
    [st EXCEPT ![id] = IF Removed(obj) THEN Absent ELSE obj]

WatchAfter(wa, id, obj) ==
    [wa EXCEPT ![id] =
        Append(@, Event(IF Removed(obj) THEN "Deleted" ELSE "Modified", obj))]

\* Faulty variant of Delete(): options validated after the
\* update has been written
DeleteResponseLate(st, id, sync, orphan) ==
    IF st[id] = Absent THEN "NotFound" ELSE "ok"

\* Delete(): 400 when both options are set, before anything is touched.
DeleteResponse(st, id, sync, orphan) ==
    IF sync /\ orphan THEN "InvalidOptionsError"
    ELSE IF st[id] = Absent THEN "NotFound"
    ELSE "ok"

\* Delete(): with SynchronousGarbageCollection the object is updated, not
\* deleted: the finalizer is added and the DeletionTimestamp set.
Deleted(obj, sync, orphan) ==
    [obj EXCEPT !.delTs = TRUE,
                !.fins = @ \cup (IF sync THEN {GCFinalizer} ELSE {})
                           \cup (IF orphan THEN {OrphanFinalizer} ELSE {})]

\* The delete-request entry point.
DeleteRequest(id, sync, orphan) ==
    LET resp == DeleteResponse(store, id, sync, orphan) IN
    /\ requests < MaxRequests
    /\ requests' = requests + 1
    /\ apiResponse' = [sync |-> sync, orphan |-> orphan, result |-> resp]
    /\ IF resp = "ok" /\ Deleted(store[id], sync, orphan) # store[id]
       THEN /\ store' = StoreAfter(store, id, Deleted(store[id], sync, orphan))
            /\ watch' = WatchAfter(watch, id, Deleted(store[id], sync, orphan))
       ELSE UNCHANGED <<store, watch>>
    /\ storeCall' = NoStoreCall
    /\ UNCHANGED <<uidToNode, dirtyQueue, workerItem, lastOp, storeErrors, otherVars>>

(***************************************************************************)
(* ObjectGraph (uidToNode).                                                *)
(***************************************************************************)

Node(owners, virtual) ==
    [owners |-> owners, dependents |-> {}, deletionRequested |-> FALSE,
     gcInProgress |-> FALSE, orphan |-> FALSE, virtual |-> virtual]

OwnerIds(refs) == {r.owner : r \in refs}

ownersOf(g, id) == IF g[id] = Absent THEN {} ELSE g[id].owners

dependentsOf(g, id) == IF g[id] = Absent THEN {} ELSE g[id].dependents

\* dependents recomputed as the inverse of the owners entries; owners that
\* have no node yet get a virtual one, and a virtual node nobody references
\* any more is dropped.
Reconcile(g) ==
    [i \in Ids |->
        LET deps == {d \in Ids : g[d] # Absent /\ i \in OwnerIds(g[d].owners)} IN
        IF g[i] = Absent
        THEN (IF deps = {} THEN Absent
              ELSE [Node({}, TRUE) EXCEPT !.dependents = deps])
        ELSE IF g[i].virtual /\ deps = {} THEN Absent
        ELSE [g[i] EXCEPT !.dependents = deps]]

\* Faulty variant of upsert: the back-references are not reconciled
upsertNoReconcile(g, id, owners) ==
    [g EXCEPT ![id] =
        IF g[id] = Absent THEN Node(owners, FALSE)
        ELSE [g[id] EXCEPT !.owners = owners, !.virtual = FALSE]]

\* upsert: create or update the node of id with the given owners.
upsert(g, id, owners) ==
    Reconcile([g EXCEPT ![id] =
        IF g[id] = Absent THEN Node(owners, FALSE)
        ELSE [g[id] EXCEPT !.owners = owners, !.virtual = FALSE]])

markDeletionRequested(g, id) ==
    IF g[id] = Absent THEN g ELSE [g EXCEPT ![id].deletionRequested = TRUE]

\* Faulty variant of markGCInProgress: toggles instead of sets
markGCInProgressToggle(g, id, inProgress) ==
    IF g[id] = Absent THEN g
    ELSE [g EXCEPT ![id].gcInProgress = IF inProgress THEN ~@ ELSE FALSE]

markGCInProgress(g, id, inProgress) ==
    IF g[id] = Absent THEN g ELSE [g EXCEPT ![id].gcInProgress = inProgress]

HasDependents(g, id) == g[id] # Absent /\ g[id].dependents # {}

\* Faulty variant of remove: the dependents are not looked at
removeUnchecked(g, id) ==
    IF g[id] = Absent THEN g ELSE [g EXCEPT ![id] = Absent]

\* remove: deletes the node only if it has zero dependents; otherwise
\* HasDependentsError and the graph is left as it is.
remove(g, id) ==
    IF g[id] = Absent \/ HasDependents(g, id) THEN g
    ELSE Reconcile([g EXCEPT ![id] = Absent])

\* Faulty variant of isBlockingDependentPresent: never reports a dependent
isBlockingDependentPresentNever(g, id) == FALSE

\* Faulty variant of isBlockingDependentPresent: any dependent blocks
isBlockingDependentPresentAny(g, id) == dependentsOf(g, id) # {}

blockingDependents(g, id) ==
    {d \in dependentsOf(g, id) :
        g[d] # Absent /\ Ref(id, TRUE) \in g[d].owners}

isBlockingDependentPresent(g, id) == blockingDependents(g, id) # {}

(***************************************************************************)
(* EventIngestor: processEvent().                                          *)
(***************************************************************************)

GCInProgressSnapshot(obj) == GCFinalizer \in obj.fins /\ obj.delTs

\* Faulty variant of Observe: the deletion timestamp is not recorded
ObserveNoDeletion(g, id, obj) ==
    IF g[id] = Absent THEN g
    ELSE [g EXCEPT ![id].orphan = OrphanFinalizer \in obj.fins]

\* The node's deletion state follows the snapshot's deletion timestamp and
\* finalizers.
Observe(g, id, obj) ==
    IF g[id] = Absent THEN g
    ELSE [(IF obj.delTs THEN markDeletionRequested(g, id) ELSE g)
            EXCEPT ![id].orphan = OrphanFinalizer \in obj.fins]

TopologyChanged(g, id, obj) ==
    g[id] = Absent \/ g[id].virtual \/ g[id].owners # obj.owners

\* Faulty variant of processEvent: a Deleted event does not enqueue the
\* owners
processEventNoOwnerEnqueue(g, id, ev) ==
    IF ev.type = "Deleted"
    THEN [graph |-> remove(g, id),
          enq |-> (IF remove(g, id) # g THEN {id} ELSE {})]
    ELSE IF GCInProgressSnapshot(ev.obj)
    THEN [graph |-> Observe(markGCInProgress(upsert(g, id, ev.obj.owners),
                                             id, TRUE), id, ev.obj),
          enq |-> {id}]
    ELSE [graph |-> Observe(markGCInProgress(upsert(g, id, ev.obj.owners),
                                             id, FALSE), id, ev.obj),
          enq |-> IF TopologyChanged(g, id, ev.obj) THEN {id} ELSE {}]

\* Faulty variant of processEvent: a snapshot with the finalizer and a
\* deletion timestamp is applied like any other snapshot
processEventNoMark(g, id, ev) ==
    IF ev.type = "Deleted"
    THEN [graph |-> remove(g, id),
          enq |-> (IF remove(g, id) # g THEN {id} ELSE {})
                  \cup {o \in OwnerIds(ownersOf(g, id)) :
                          g[o] # Absent /\ g[o].gcInProgress}]
    ELSE [graph |-> Observe(markGCInProgress(upsert(g, id, ev.obj.owners),
                                             id, FALSE), id, ev.obj),
          enq |-> IF TopologyChanged(g, id, ev.obj) THEN {id} ELSE {}]

\* Added / Modified: uidToNode is updated from the snapshot (upsert); a
\* snapshot with the finalizer and a deletion timestamp marks the node
\* "GC in progress" and enqueues it; for any other snapshot the mark is
\* cleared and the identity is enqueued when its owners changed.
\* Deleted: remove (which leaves a node that still has dependents); the
\* owners marked "GC in progress" are put into the dirtyQueue.
\* The result is the new graph and the identities to enqueue.
processEvent(g, id, ev) ==
    IF ev.type = "Deleted"
    THEN [graph |-> remove(g, id),
          enq |-> (IF remove(g, id) # g THEN {id} ELSE {})
                  \cup {o \in OwnerIds(ownersOf(g, id)) :
                          g[o] # Absent /\ g[o].gcInProgress}]
    ELSE IF GCInProgressSnapshot(ev.obj)
    THEN [graph |-> Observe(markGCInProgress(upsert(g, id, ev.obj.owners),
                                             id, TRUE), id, ev.obj),
          enq |-> {id}]
    ELSE [graph |-> Observe(markGCInProgress(upsert(g, id, ev.obj.owners),
                                             id, FALSE), id, ev.obj),
          enq |-> IF TopologyChanged(g, id, ev.obj) THEN {id} ELSE {}]

Ingest(id) ==
    /\ watch[id] # <<>>
    /\ LET r == processEvent(uidToNode, id, Head(watch[id])) IN
       /\ uidToNode' = r.graph
       /\ dirtyQueue' = AddAll(dirtyQueue, r.enq)
    /\ watch' = [watch EXCEPT ![id] = Tail(@)]
    /\ apiResponse' = NoResponse
    /\ storeCall' = NoStoreCall
    /\ UNCHANGED <<store, workerItem, lastOp, storeErrors, requests, otherVars>>

(***************************************************************************)
(* ItemProcessor: processItem().                                           *)
(***************************************************************************)

\* An owner counts as absent when it has no node in the graph, or has a
\* deletion timestamp and no orphan finalizer.
\* Faulty variant of the owner check: only a missing node counts as absent
ownerAbsentInGraphOnly(g, o) == g[o] = Absent

ownerAbsent(g, o) ==
    g[o] = Absent \/ (g[o].deletionRequested /\ ~g[o].orphan)

ownerGCInProgress(g, o) == g[o] # Absent /\ g[o].gcInProgress

\* Faulty variant of the CycleBreaker: never reports a cycle
isCycleNever(g, id) == FALSE

\* Faulty variant of the CycleBreaker: the owners are not looked at
isCycleIgnoringOwners(g, id) == g[id].gcInProgress

\* Faulty variant of the CycleBreaker: a node without owners satisfies the
\* condition vacuously
isCycleVacuous(g, id) ==
    /\ g[id].gcInProgress
    /\ \A o \in OwnerIds(g[id].owners) : ownerGCInProgress(g, o)

\* CycleBreaker: the object and all of its owners have the GCFinalizer.
isCycle(g, id) ==
    /\ g[id].gcInProgress
    /\ g[id].owners # {}
    /\ \A o \in OwnerIds(g[id].owners) : ownerGCInProgress(g, o)

NoCall == [kind |-> None, sync |-> FALSE, refs |-> {}]

\* Faulty variant of the ordinary path: one absent owner is enough for the
\* Delete
ordinaryPathSomeOwnerAbsent(g, id) ==
    LET owners == OwnerIds(g[id].owners)
        absent == {o \in owners : ownerAbsent(g, o)}
        inGC   == {o \in owners : ownerGCInProgress(g, o)}
    IN  IF absent # {}
        THEN [call |-> [kind |-> "Delete", sync |-> inGC # {}, refs |-> {}],
              enq |-> {}]
        ELSE [call |-> NoCall, enq |-> {}]

\* Faulty variant of the ordinary path: dependents are always deleted
\* without SynchronousGarbageCollection
ordinaryPathNoCascade(g, id) ==
    LET owners == OwnerIds(g[id].owners)
        absent == {o \in owners : ownerAbsent(g, o)}
        inGC   == {o \in owners : ownerGCInProgress(g, o)}
    IN  IF owners = {} THEN [call |-> NoCall, enq |-> {}]
        ELSE IF absent = owners
        THEN [call |-> [kind |-> "Delete", sync |-> FALSE, refs |-> {}],
              enq |-> {}]
        ELSE IF inGC # {}
        THEN [call |-> [kind |-> "PatchOwnerReferences", sync |-> FALSE,
                        refs |-> inGC],
              enq |-> {}]
        ELSE [call |-> NoCall, enq |-> {}]

\* Faulty variant of the ordinary path: a node without owners satisfies
\* "every owner is absent" vacuously
ordinaryPathVacuous(g, id) ==
    LET owners == OwnerIds(g[id].owners)
        absent == {o \in owners : ownerAbsent(g, o)}
        inGC   == {o \in owners : ownerGCInProgress(g, o)}
    IN  IF absent = owners
        THEN [call |-> [kind |-> "Delete", sync |-> inGC # {}, refs |-> {}],
              enq |-> {}]
        ELSE IF inGC # {}
        THEN [call |-> [kind |-> "PatchOwnerReferences", sync |-> FALSE,
                        refs |-> inGC],
              enq |-> {}]
        ELSE [call |-> NoCall, enq |-> {}]

\* The ordinary path: Delete when all owners are absent, with the
\* SynchronousGarbageCollection option the owners' finalizers suggest;
\* otherwise the ownerReferences to owners in synchronous GC are removed.
ordinaryPath(g, id) ==
    LET owners == OwnerIds(g[id].owners)
        absent == {o \in owners : ownerAbsent(g, o)}
        inGC   == {o \in owners : ownerGCInProgress(g, o)}
    IN  IF owners = {} THEN [call |-> NoCall, enq |-> {}]
        ELSE IF absent = owners
        THEN [call |-> [kind |-> "Delete", sync |-> inGC # {}, refs |-> {}],
              enq |-> {}]
        ELSE IF inGC # {}
        THEN [call |-> [kind |-> "PatchOwnerReferences", sync |-> FALSE,
                        refs |-> inGC],
              enq |-> {}]
        ELSE [call |-> NoCall, enq |-> {}]

\* Faulty variant of the gcInProgress path: the blocking dependents are not
\* enqueued
gcInProgressPathNoEnqueue(g, id) ==
    IF isCycle(g, id) \/ ~isBlockingDependentPresent(g, id)
    THEN [call |-> [kind |-> "PatchFinalizers", sync |-> FALSE, refs |-> {}],
          enq |-> {}]
    ELSE [call |-> NoCall, enq |-> {}]

\* The gcInProgress path: the CycleBreaker check, then the finalizer is
\* removed when no blocking dependent is present; otherwise the blocking
\* dependents are enqueued.
gcInProgressPath(g, id) ==
    IF isCycle(g, id) \/ ~isBlockingDependentPresent(g, id)
    THEN [call |-> [kind |-> "PatchFinalizers", sync |-> FALSE, refs |-> {}],
          enq |-> {}]
    ELSE [call |-> NoCall, enq |-> blockingDependents(g, id)]

\* Faulty variant of processItem: the ordinary path is taken whatever the
\* node's "GC in progress" mark
processItemNoPath(g, id) ==
    IF g[id] = Absent THEN [call |-> NoCall, enq |-> {}]
    ELSE ordinaryPath(g, id)

\* The decision of processItem() for id: the store call to issue and the
\* identities to enqueue.  The best-effort requeue on
\* observedGeneration < Generation is not modelled: objects carry no
\* generation here, so the requeue never fires.
processItem(g, id) ==
    IF g[id] = Absent THEN [call |-> NoCall, enq |-> {}]
    ELSE IF g[id].gcInProgress THEN gcInProgressPath(g, id)
    ELSE ordinaryPath(g, id)

\* The object a store call writes back.
Patched(obj, call) ==
    CASE call.kind = "Delete" -> Deleted(obj, call.sync, FALSE)
      [] call.kind = "PatchFinalizers" ->
            [obj EXCEPT !.fins = @ \ {GCFinalizer}]
      [] call.kind = "PatchOwnerReferences" ->
            [obj EXCEPT !.owners = {r \in @ : r.owner \notin call.refs}]
      [] OTHER -> obj

Outcomes == {"ok", "Conflict", "Timeout"}

\* Faulty variant of Retry: a failed store call is given up
RetryNever(call, result) == FALSE

\* A NotFound response to a delete is treated as success; every other
\* failure re-enqueues the identity.
Retry(call, result) ==
    \/ result \in {"Conflict", "Timeout"}
    \/ result = "NotFound" /\ call.kind # "Delete"

\* Idle workers are interchangeable: the lowest idle one takes the item.
GCGet(w) ==
    /\ workerItem[w] = None
    /\ \A v \in GCWorkers : v < w => workerItem[v] # None
    /\ CanGet(dirtyQueue)
    /\ dirtyQueue' = Get(dirtyQueue)
    /\ workerItem' = [workerItem EXCEPT ![w] = Head(dirtyQueue.queue)]
    /\ apiResponse' = NoResponse
    /\ storeCall' = NoStoreCall
    /\ UNCHANGED <<store, watch, uidToNode, lastOp, storeErrors, requests, otherVars>>

GCProcess(w, outcome) ==
    /\ workerItem[w] # None
    /\ LET id == workerItem[w]
           d == processItem(uidToNode, id)
           result == IF d.call.kind = None THEN None
                     ELSE IF outcome # "ok" THEN outcome
                     ELSE IF store[id] = Absent THEN "NotFound"
                     ELSE "ok"
           q1 == AddAll(Done(dirtyQueue, id), d.enq)
       IN  /\ outcome # "ok" =>
                d.call.kind # None /\ storeErrors < MaxStoreErrors
           /\ storeErrors' = IF outcome # "ok" THEN storeErrors + 1
                             ELSE storeErrors
           /\ storeCall' = [kind |-> d.call.kind, id |-> id,
                            sync |-> d.call.sync, refs |-> d.call.refs,
                            result |-> result]
           /\ IF result = "ok" /\ Patched(store[id], d.call) # store[id]
              THEN /\ store' = StoreAfter(store, id, Patched(store[id], d.call))
                   /\ watch' = WatchAfter(watch, id, Patched(store[id], d.call))
              ELSE UNCHANGED <<store, watch>>
           /\ dirtyQueue' = IF Retry(d.call, result) THEN Add(q1, id) ELSE q1
    /\ workerItem' = [workerItem EXCEPT ![w] = None]
    /\ apiResponse' = NoResponse
    /\ UNCHANGED <<uidToNode, lastOp, requests, otherVars>>

GCInit ==
    /\ InitQueue
    /\ OthersInit
    /\ \E t \in Topologies :
          /\ store = [i \in Ids |-> Obj(t[i])]
          /\ watch = [i \in Ids |-> <<Event("Added", Obj(t[i]))>>]
    /\ uidToNode = [i \in Ids |-> Absent]
    /\ apiResponse = NoResponse
    /\ storeCall = NoStoreCall
    /\ storeErrors = 0
    /\ requests = 0

GCNext ==
    \/ \E i \in Ids, sync \in BOOLEAN, orphan \in BOOLEAN :
          DeleteRequest(i, sync, orphan)
    \/ \E i \in Ids : Ingest(i)
    \/ \E w \in GCWorkers : GCGet(w)
    \/ \E w \in GCWorkers, outcome \in Outcomes : GCProcess(w, outcome)

Spec == GCInit /\ [][GCNext]_vars

\* The ingestor keeps consuming its stream and every worker keeps pulling
\* from the queue and completing the item it holds.
GCFairness ==
    /\ \A i \in Ids : WF_vars(Ingest(i))
    /\ \A w \in GCWorkers : WF_vars(GCGet(w))
    /\ \A w \in GCWorkers : WF_vars(\E outcome \in Outcomes : GCProcess(w, outcome))

\* The garbage collector at work after the API server has accepted the
\* synchronous-GC delete of the objects in ds (no further request arrives).
SyncDeleted(obj) == Deleted(obj, TRUE, FALSE)

LiveInit(ts, dss) ==
    /\ InitQueue
    /\ OthersInit
    /\ \E t \in ts, ds \in dss :
          /\ store = [i \in Ids |-> IF i \in ds THEN SyncDeleted(Obj(t[i]))
                                    ELSE Obj(t[i])]
          /\ watch = [i \in Ids |->
                        IF i \in ds
                        THEN <<Event("Added", Obj(t[i])),
                               Event("Modified", SyncDeleted(Obj(t[i])))>>
                        ELSE <<Event("Added", Obj(t[i]))>>]
    /\ uidToNode = [i \in Ids |-> Absent]
    /\ apiResponse = NoResponse
    /\ storeCall = NoStoreCall
    /\ storeErrors = 0
    /\ requests = MaxRequests

LiveNext ==
    \/ \E i \in Ids : Ingest(i)
    \/ \E w \in GCWorkers : GCGet(w)
    \/ \E w \in GCWorkers, outcome \in Outcomes : GCProcess(w, outcome)

SpecAcyclicLive == LiveInit({Chain, Fan, Shared}, {{"A"}}) /\ [][LiveNext]_vars /\ GCFairness

SpecCycleLive == LiveInit({Cycle}, {{"A"}, {"A", "B"}}) /\ [][LiveNext]_vars /\ GCFairness

\* The collector at work after the accepted synchronous-GC delete of "A",
\* one of the two owners of "C".
SpecShared == LiveInit({Shared}, {{"A"}}) /\ [][LiveNext]_vars /\ GCFairness

\* The garbage collector at work after the accepted synchronous-GC delete of
\* "A", while a plain delete request for its dependent "B" can still arrive.
RetryInit ==
    /\ InitQueue
    /\ OthersInit
    /\ \E t \in {Pair(TRUE)} :
          /\ store = [i \in Ids |-> IF i = "A" THEN SyncDeleted(Obj(t[i]))
                                    ELSE Obj(t[i])]
          /\ watch = [i \in Ids |->
                        IF i = "A"
                        THEN <<Event("Added", Obj(t[i])),
                               Event("Modified", SyncDeleted(Obj(t[i])))>>
                        ELSE <<Event("Added", Obj(t[i]))>>]
    /\ uidToNode = [i \in Ids |-> Absent]
    /\ apiResponse = NoResponse
    /\ storeCall = NoStoreCall
    /\ storeErrors = 0
    /\ requests = 0

RetryNext ==
    \/ DeleteRequest("B", FALSE, FALSE)
    \/ LiveNext

SpecRetry == RetryInit /\ [][RetryNext]_vars /\ GCFairness

\* The garbage collector restarted after the API server had accepted the
\* synchronous-GC delete of the objects in ds: its graph is empty and the
\* relist delivers every object as an Added event with its current snapshot.
RelistInit(ts, dss) ==
    /\ InitQueue
    /\ OthersInit
    /\ \E t \in ts, ds \in dss :
          /\ store = [i \in Ids |-> IF i \in ds THEN SyncDeleted(Obj(t[i]))
                                    ELSE Obj(t[i])]
          /\ watch = [i \in Ids |-> <<Event("Added", store[i])>>]
    /\ uidToNode = [i \in Ids |-> Absent]
    /\ apiResponse = NoResponse
    /\ storeCall = NoStoreCall
    /\ storeErrors = 0
    /\ requests = MaxRequests

SpecRelist == RelistInit({Chain, Fan, Cycle}, {{"A"}, {"B"}}) /\ [][LiveNext]_vars

\* Scenarios 1 and 2: the garbage collector has observed "A" and its
\* dependent "B" and drained its queue, the creation of "C" is not yet
\* ingested, and the API server has just accepted the synchronous-GC delete
\* of "A".
ObservedGraph(t, seen) ==
    Reconcile([i \in Ids |-> IF i \in seen THEN Node(t[i], FALSE) ELSE Absent])

ScenarioInit(ts) ==
    /\ InitQueue
    /\ OthersInit
    /\ \E t \in ts :
          /\ store = [i \in Ids |-> IF i = "A" THEN SyncDeleted(Obj(t[i]))
                                    ELSE Obj(t[i])]
          /\ watch = [i \in Ids |->
                        CASE i = "A" -> <<Event("Modified", SyncDeleted(Obj(t[i])))>>
                          [] i = "B" -> <<>>
                          [] i = "C" -> <<Event("Added", Obj(t[i]))>>]
          /\ uidToNode = ObservedGraph(t, {"A", "B"})
    /\ apiResponse = NoResponse
    /\ storeCall = NoStoreCall
    /\ storeErrors = 0
    /\ requests = MaxRequests

SpecScenario1 == ScenarioInit({Pair(TRUE)}) /\ [][LiveNext]_vars /\ GCFairness

SpecScenario2 == ScenarioInit({Pair(FALSE), Star(FALSE)}) /\ [][LiveNext]_vars /\ GCFairness

\* Scenario 4: owner "A" was deleted without a finalizer before the garbage
\* collector saw any event for it; its Deleted event and the Added events
\* of the other objects are still to be ingested.
Scenario4Init ==
    /\ InitQueue
    /\ OthersInit
    /\ \E t \in {Pair(TRUE), Pair(FALSE), Star(TRUE), Star(FALSE), Chain} :
          /\ store = [i \in Ids |-> IF i = "A" THEN Absent ELSE Obj(t[i])]
          /\ watch = [i \in Ids |->
                        IF i = "A" THEN <<Event("Deleted", Obj(t[i]))>>
                        ELSE <<Event("Added", Obj(t[i]))>>]
    /\ uidToNode = [i \in Ids |-> Absent]
    /\ apiResponse = NoResponse
    /\ storeCall = NoStoreCall
    /\ storeErrors = 0
    /\ requests = MaxRequests

SpecScenario4 == Scenario4Init /\ [][LiveNext]_vars /\ GCFairness

(***************************************************************************)
(* pod-security-admission: policy.CheckRegistry.                           *)
(***************************************************************************)

\* Newest minor version a check is registered for.
MaxMinor == 2

\* Largest number of versions in one AddCheck call.
MaxChecks == 2

\* api.Version: "latest" or v1.<minor>.
Version(minor) == [latest |-> FALSE, minor |-> minor]

LatestVersion == [latest |-> TRUE, minor |-> 0]

\* v.Older(other): latest is newer than every numbered version.
Older(v, other) ==
    IF other.latest THEN ~v.latest
    ELSE IF v.latest THEN FALSE
    ELSE v.minor < other.minor

\* Version strings used as keys of the checks map: "v1.<n>", "latest", and
\* one that does not parse.
VersionKeys ==
    {[text |-> "v1.", minor |-> n] : n \in 1..MaxMinor}
        \cup {[text |-> "latest", minor |-> 0], [text |-> "bogus", minor |-> 0]}

\* api.VersionToEvaluate(v)
VersionToEvaluate(key) ==
    CASE key.text = "v1."    -> [err |-> FALSE, version |-> Version(key.minor)]
      [] key.text = "latest" -> [err |-> FALSE, version |-> LatestVersion]
      [] OTHER               -> [err |-> TRUE, version |-> LatestVersion]

\* Versions asked for: v1.0 .. v1.(MaxMinor + 1) and latest.
QueryVersions == {Version(n) : n \in 0..(MaxMinor + 1)} \cup {LatestVersion}

LevelPrivileged == "privileged"
LevelBaseline == "baseline"
LevelRestricted == "restricted"

\* api.Level values passed in, one of them invalid.
Levels == {LevelPrivileged, LevelBaseline, LevelRestricted, "foo-bar"}

\* level.Valid()
LevelValid(level) == level \in {LevelPrivileged, LevelBaseline, LevelRestricted}

\* Check IDs; "" is the missing ID.
CheckIDs == {"a", "b", ""}

versionedCheck(id, version) == [id |-> id, firstVersion |-> version]

\* Faulty variant of the sort: oldest checks first
RECURSIVE SortOldestFirst(_)
SortOldestFirst(cs) ==
    IF cs = {} THEN <<>>
    ELSE LET oldest == CHOOSE c \in cs :
                          \A d \in cs : ~Older(d.firstVersion, c.firstVersion)
         IN  <<oldest>> \o SortOldestFirst(cs \ {oldest})

\* sort.Slice(versionedChecks, ...): newest checks first.
RECURSIVE SortNewestFirst(_)
SortNewestFirst(cs) ==
    IF cs = {} THEN <<>>
    ELSE LET newest == CHOOSE c \in cs :
                          \A d \in cs : ~Older(c.firstVersion, d.firstVersion)
         IN  <<newest>> \o SortNewestFirst(cs \ {newest})

\* The map m with m[id] set to v.
MapPut(m, id, v) == [x \in DOMAIN m \cup {id} |-> IF x = id THEN v ELSE m[x]]

\* Index of the first check of the slice that version is not older than, or
\* 0 when the loop runs to its end.
RECURSIVE FirstNotOlder(_, _, _)
FirstNotOlder(checks, version, k) ==
    IF k > Len(checks) THEN 0
    ELSE IF ~Older(version, checks[k].firstVersion) THEN k
    ELSE FirstNotOlder(checks, version, k + 1)

NoCheck == [id |-> None]

\* CheckForIDAndVersion: the slice is looked up under baseline, then under
\* restricted; indexing the last element of an empty slice panics.
CheckForIDAndVersionResult(b, r, id, version) ==
    IF id \notin DOMAIN b /\ id \notin DOMAIN r
    THEN [outcome |-> "error", check |-> NoCheck]
    ELSE LET checks == IF id \in DOMAIN b THEN b[id] ELSE r[id]
             k == FirstNotOlder(checks, version, 1)
         IN  IF k # 0 THEN [outcome |-> "ok", check |-> checks[k]]
             ELSE IF Len(checks) = 0 THEN [outcome |-> "panic", check |-> NoCheck]
             ELSE [outcome |-> "error", check |-> NoCheck]

\* The checks one map contributes: for every ID the first check of its
\* slice that version is not older than.
ChecksOf(m, version) ==
    {m[id][FirstNotOlder(m[id], version, 1)] :
        id \in {x \in DOMAIN m : FirstNotOlder(m[x], version, 1) # 0}}

\* ChecksForLevelAndVersion (the order of the returned slice follows the map
\* iteration and is not modelled).
ChecksForLevelAndVersionResult(b, r, level, version) ==
    IF level = LevelPrivileged THEN [outcome |-> "ok", checks |-> {}]
    ELSE IF ~LevelValid(level) THEN [outcome |-> "error", checks |-> {}]
    ELSE IF level = LevelBaseline
    THEN [outcome |-> "ok", checks |-> ChecksOf(b, version)]
    ELSE [outcome |-> "ok", checks |-> ChecksOf(b, version) \cup ChecksOf(r, version)]

\* Faulty variant of AddCheck: an ID already registered is not refused
AddCheckNoDuplicateTest(b, r, level, checks) ==
    LET ids == {checks[k] : k \in DOMAIN checks}
        id == IF ids = {} THEN "" ELSE CHOOSE i \in ids : TRUE
        versionedChecks ==
            SortNewestFirst({versionedCheck(checks[k], VersionToEvaluate(k).version)
                               : k \in DOMAIN checks})
    IN  IF level = LevelRestricted
        THEN [err |-> FALSE, baseline |-> b, restricted |-> MapPut(r, id, versionedChecks)]
        ELSE IF level = LevelBaseline
        THEN [err |-> FALSE, baseline |-> MapPut(b, id, versionedChecks), restricted |-> r]
        ELSE [err |-> TRUE, baseline |-> b, restricted |-> r]

\* AddCheck(level, checks): checks maps version strings to the ID of the
\* check given for that version.  The loop over the map fails on a missing
\* ID, on two different IDs, on a version that does not parse and on
\* "latest" (which of these it reports depends on the iteration order; all
\* return before anything is written).
AddCheckResult(b, r, level, checks) ==
    LET ids == {checks[k] : k \in DOMAIN checks}
        id == IF ids = {} THEN "" ELSE CHOOSE i \in ids : TRUE
        loopFails ==
            \/ "" \in ids
            \/ Cardinality(ids) > 1
            \/ \E k \in DOMAIN checks :
                  VersionToEvaluate(k).err \/ VersionToEvaluate(k).version.latest
        versionedChecks ==
            SortNewestFirst({versionedCheck(checks[k], VersionToEvaluate(k).version)
                               : k \in DOMAIN checks})
        unchanged == [err |-> TRUE, baseline |-> b, restricted |-> r]
    IN  IF loopFails THEN unchanged
        ELSE IF id \in DOMAIN r THEN unchanged
        ELSE IF id \in DOMAIN b THEN unchanged
        ELSE IF level = LevelRestricted
        THEN [err |-> FALSE, baseline |-> b, restricted |-> MapPut(r, id, versionedChecks)]
        ELSE IF level = LevelBaseline
        THEN [err |-> FALSE, baseline |-> MapPut(b, id, versionedChecks), restricted |-> r]
        ELSE unchanged

\* State of the garbage collector, which these calls do not touch.
collectorVars == <<store, watch, uidToNode, dirtyQueue, workerItem, lastOp,
                   apiResponse, storeCall, storeErrors, requests>>

\* What the calls on the CheckRegistry leave alone.
besideRegistry == <<collectorVars, nodeVars, matchVars, aggVars, tickVars, readyVars,
                   waitVars>>

\* What the calls on the nodeinfo provider leave alone.
besideProvider == <<collectorVars, regVars, matchVars, aggVars, tickVars, readyVars,
                   waitVars>>

\* What the matchers leave alone.
besideMatchers == <<collectorVars, regVars, nodeVars, aggVars, tickVars, readyVars,
                   waitVars>>

\* What the audit aggregator leaves alone.
besideAggregator == <<collectorVars, regVars, nodeVars, matchVars, tickVars, readyVars,
                   waitVars>>

\* What the ticker Synchronizer leaves alone.
besideSynchronizer == <<collectorVars, regVars, nodeVars, matchVars, aggVars,
                        readyVars, waitVars>>

\* What readinessCheck leaves alone.
besideReadiness == <<collectorVars, regVars, nodeVars, matchVars, aggVars,
                     tickVars, waitVars>>

\* What ForObjectCondition leaves alone.
besideWait == <<collectorVars, regVars, nodeVars, matchVars, aggVars,
                tickVars, readyVars>>

AddCheck(level, checks) ==
    LET res == AddCheckResult(baselineChecks, restrictedChecks, level, checks) IN
    /\ baselineChecks' = res.baseline
    /\ restrictedChecks' = res.restricted
    /\ regCall' = [op |-> "AddCheck",
                   outcome |-> IF res.err THEN "error" ELSE "ok"]
    /\ UNCHANGED <<besideRegistry>>

CheckForIDAndVersion(id, version) ==
    /\ regCall' = [op |-> "CheckForIDAndVersion",
                   outcome |-> CheckForIDAndVersionResult(
                       baselineChecks, restrictedChecks, id, version).outcome]
    /\ UNCHANGED <<baselineChecks, restrictedChecks, besideRegistry>>

ChecksForLevelAndVersion(level, version) ==
    /\ regCall' = [op |-> "ChecksForLevelAndVersion",
                   outcome |-> ChecksForLevelAndVersionResult(
                       baselineChecks, restrictedChecks, level, version).outcome]
    /\ UNCHANGED <<baselineChecks, restrictedChecks, besideRegistry>>

\* NewCheckRegistry(): both maps empty.
RegistryInit == InitQueue /\ InitGCIdle /\ OthersInit

RegistryNext ==
    \/ \E level \in Levels, keys \in SUBSET VersionKeys :
          /\ Cardinality(keys) <= MaxChecks
          /\ \E checks \in [keys -> CheckIDs] : AddCheck(level, checks)
    \/ \E id \in CheckIDs \cup {"noexist"}, version \in QueryVersions :
          CheckForIDAndVersion(id, version)
    \/ \E level \in Levels, version \in QueryVersions :
          ChecksForLevelAndVersion(level, version)

SpecRegistry == RegistryInit /\ [][RegistryNext]_vars

(***************************************************************************)
(* kubelet nodeinfo: provider.GetNode().                                   *)
(***************************************************************************)

\* Node objects, by content (DeepCopy returns an equal object).
InitNode == "initNode"
FetchNode == "fetchNode"

\* The node registered again after a deletion: same name, another UID.
RecreatedNode == "recreatedNode"

\* What nodeGetter.Get returns: a node, or nil with an error.
GetterResults ==
    {[node |-> FetchNode, err |-> FALSE], [node |-> RecreatedNode, err |-> FALSE],
     [node |-> Nil, err |-> TRUE]}

\* What initialNodeFn returns: the node, an error, neither or both.
FnResults ==
    {[node |-> n, err |-> e] : n \in {InitNode, Nil}, e \in BOOLEAN}

\* fakeInitialNode.fn: a call succeeded when it returned the node and no error.
FnSucceeded(f) == ~f.err /\ f.node # Nil

\* getInitialNode, from the call of initialNodeFn on: the node is cached
\* when the function succeeded with a node.
callInitialNodeFn(f) ==
    [node |-> f.node, err |-> f.err, store |-> (~f.err /\ f.node # Nil)]

\* Faulty variant of GetNode: the getter's error is returned, without the
\* fall back to the initial node
GetNodeCallNoFallback(c, g) ==
    /\ getNode[c].pc = "idle"
    /\ getRef[c].pc = "idle"
    /\ getNode' = [getNode EXCEPT ![c] =
          [pc |-> "done", getter |-> g, fallback |-> "none",
           result |-> [node |-> g.node, err |-> g.err]]]
    /\ UNCHANGED <<initialNodeFn, initialNode, fnSuccesses, uidVars, besideProvider>>

\* GetNode: the getter is asked first.
GetNodeCall(c, g) ==
    /\ getNode[c].pc = "idle"
    /\ getRef[c].pc = "idle"
    /\ getNode' = [getNode EXCEPT ![c] =
          IF ~g.err
          THEN [pc |-> "done", getter |-> g, fallback |-> "none",
                result |-> [node |-> g.node, err |-> FALSE]]
          ELSE [pc |-> "getInitialNode", getter |-> g]]
    /\ UNCHANGED <<initialNodeFn, initialNode, fnSuccesses, uidVars, besideProvider>>

\* getInitialNode: initialNodeFn unset, or the cached node, or go on to call
\* initialNodeFn.
GetInitialNode(c) ==
    /\ getNode[c].pc = "getInitialNode"
    /\ getNode' = [getNode EXCEPT ![c] =
          IF ~initialNodeFn
          THEN [pc |-> "done", getter |-> @.getter, fallback |-> "unset",
                result |-> [node |-> Nil, err |-> TRUE]]
          ELSE IF initialNode # Nil
          THEN [pc |-> "done", getter |-> @.getter, fallback |-> "cached",
                result |-> [node |-> initialNode, err |-> FALSE]]
          ELSE [pc |-> "callFn", getter |-> @.getter]]
    /\ UNCHANGED <<initialNodeFn, initialNode, fnSuccesses, uidVars, besideProvider>>

CallInitialNodeFn(c, f) ==
    /\ getNode[c].pc = "callFn"
    /\ LET r == callInitialNodeFn(f) IN
       /\ initialNode' = IF r.store THEN r.node ELSE initialNode
       /\ fnSuccesses' = IF FnSucceeded(f) THEN fnSuccesses + 1 ELSE fnSuccesses
       /\ getNode' = [getNode EXCEPT ![c] =
             [pc |-> "done", getter |-> @.getter, fallback |-> "fresh", fn |-> f,
              result |-> [node |-> r.node, err |-> r.err]]]
    /\ UNCHANGED <<initialNodeFn, uidVars, besideProvider>>

\* The caller takes the result.
GetNodeReturn(c) ==
    /\ getNode[c].pc = "done"
    /\ getNode' = [getNode EXCEPT ![c] = IdleCall]
    /\ UNCHANGED <<initialNodeFn, initialNode, fnSuccesses, uidVars, besideProvider>>

SetInitialNodeFn ==
    /\ ~initialNodeFn
    /\ initialNodeFn' = TRUE
    /\ UNCHANGED <<initialNode, getNode, fnSuccesses, uidVars, besideProvider>>

TestNodeName == "test-node"

\* n.UID
NodeUID(n) == IF n = FetchNode THEN "test-node-uid" ELSE "recreated-node-uid"

ObjectReference(uid) ==
    [apiVersion |-> "v1", kind |-> "Node", name |-> TestNodeName, uid |-> uid]

\* GetObjectRef, given what getUID returned.
GetObjectRefResult(uid, err) ==
    IF err THEN [ref |-> Nil, err |-> TRUE]
    ELSE [ref |-> ObjectReference(uid), err |-> FALSE]

\* GetEventRef, given the UID getUID returned: an empty UID is replaced by
\* the node name.
GetEventRefResult(uid) ==
    [ref |-> ObjectReference(IF uid = "" THEN TestNodeName ELSE uid), err |-> FALSE]

RefOps == {"GetObjectRef", "GetEventRef"}

RefResult(op, uid, err) ==
    IF op = "GetObjectRef" THEN GetObjectRefResult(uid, err)
    ELSE GetEventRefResult(uid)

GetRefCall(c, op) ==
    /\ getRef[c].pc = "idle"
    /\ getNode[c].pc = "idle"
    /\ getRef' = [getRef EXCEPT ![c] = [pc |-> "getUID", op |-> op]]
    /\ UNCHANGED <<nodeUID, initialNodeFn, initialNode, getNode, fnSuccesses,
                   besideProvider>>

\* getUID: the cached UID if there is one.
GetUID(c) ==
    /\ getRef[c].pc = "getUID"
    /\ getRef' = [getRef EXCEPT ![c] =
          IF nodeUID # Nil
          THEN [pc |-> "done", op |-> @.op, cached |-> nodeUID,
                result |-> RefResult(@.op, nodeUID, FALSE)]
          ELSE [pc |-> "fetch", op |-> @.op]]
    /\ UNCHANGED <<nodeUID, initialNodeFn, initialNode, getNode, fnSuccesses,
                   besideProvider>>

\* getUID without a cached UID: the node is fetched and its UID is stored.
FetchUID(c, g) ==
    /\ getRef[c].pc = "fetch"
    /\ nodeUID' = IF g.err THEN nodeUID ELSE NodeUID(g.node)
    /\ getRef' = [getRef EXCEPT ![c] =
          [pc |-> "done", op |-> @.op, cached |-> Nil, getter |-> g,
           result |-> IF g.err THEN RefResult(@.op, "", TRUE)
                      ELSE RefResult(@.op, NodeUID(g.node), FALSE)]]
    /\ UNCHANGED <<initialNodeFn, initialNode, getNode, fnSuccesses,
                   besideProvider>>

GetRefReturn(c) ==
    /\ getRef[c].pc = "done"
    /\ getRef' = [getRef EXCEPT ![c] = IdleCall]
    /\ UNCHANGED <<nodeUID, initialNodeFn, initialNode, getNode, fnSuccesses,
                   besideProvider>>

\* NewProvider(): initialNodeFn unset, nothing cached.
ProviderInit == InitQueue /\ InitGCIdle /\ OthersInit

ProviderNext ==
    \/ SetInitialNodeFn
    \/ \E c \in Callers, g \in GetterResults : GetNodeCall(c, g)
    \/ \E c \in Callers : GetInitialNode(c)
    \/ \E c \in Callers, f \in FnResults : CallInitialNodeFn(c, f)
    \/ \E c \in Callers : GetNodeReturn(c)
    \/ \E c \in Callers, op \in RefOps : GetRefCall(c, op)
    \/ \E c \in Callers : GetUID(c)
    \/ \E c \in Callers, g \in GetterResults : FetchUID(c, g)
    \/ \E c \in Callers : GetRefReturn(c)

SpecProvider == ProviderInit /\ [][ProviderNext]_vars

(***************************************************************************)
(* test/matchers: StructMatcher and SliceMatcher.                          *)
(***************************************************************************)

FieldNames == {"A", "B"}

ElementIDs == {"a", "b"}

Values == {"a", "b"}

\* Longest slice handed to SliceMatcher.Match.
MaxElements == 3

\* The matchers put into Fields and Elements: gomega.Equal("a"), Ignore(),
\* and a matcher whose Match returns an error.
Matchers == {[kind |-> "Equal", expected |-> "a"], [kind |-> "Ignore"],
             [kind |-> "Error"]}

\* types.GomegaMatcher.Match of the matchers above.
MatcherMatch(m, v) ==
    CASE m.kind = "Equal" -> [success |-> (v = m.expected), err |-> FALSE]
      [] m.kind = "Ignore" -> [success |-> TRUE, err |-> FALSE]
      [] OTHER -> [success |-> FALSE, err |-> TRUE]

\* Maps from some of the keys to values.
PartialMaps(keys, vals) == UNION {[d -> vals] : d \in SUBSET keys}

\* Structs, as maps from their field names to the fields' values.
Structs == PartialMaps(FieldNames, Values)

\* Slice elements; the Identifier returns the element's id.
SliceElements == [id : ElementIDs, value : Values]

Identifier(element) == element.id

Slices == UNION {[1..n -> SliceElements] : n \in 0..MaxElements}

\* matchFields: the errors collected for the fields of the struct, then, in
\* strict mode, for the expected fields the struct does not have. The result
\* of the field's matcher is dropped and only its error is kept.
matchFields(fields, strict, actual) ==
    {[at |-> f, error |-> "unexpected field"] :
        f \in {g \in DOMAIN actual : g \notin DOMAIN fields /\ strict}}
    \cup {[at |-> f, error |-> "nested"] :
        f \in {g \in DOMAIN actual :
                 g \in DOMAIN fields /\ MatcherMatch(fields[g], actual[g]).err}}
    \cup {[at |-> f, error |-> "missing expected field"] :
        f \in {g \in DOMAIN fields : strict /\ g \notin DOMAIN actual}}

\* StructMatcher.Match for a struct.
StructMatcherMatch(fields, strict, actual) ==
    LET errs == matchFields(fields, strict, actual) IN
    IF errs # {} THEN [success |-> FALSE, err |-> TRUE, errs |-> errs]
    ELSE [success |-> TRUE, err |-> FALSE, errs |-> {}]

\* matchElements, from element i on; seen are the IDs of the elements before.
RECURSIVE elementErrors(_, _, _, _, _)
elementErrors(elements, strict, actual, i, seen) ==
    IF i > Len(actual) THEN {}
    ELSE LET element == actual[i]
             id == Identifier(element)
             rest(s) == elementErrors(elements, strict, actual, i + 1, s)
         IN
         IF id \in seen
         THEN {[at |-> i, id |-> id, error |-> "found duplicate element ID"]} \cup rest(seen)
         ELSE IF id \notin DOMAIN elements
         THEN (IF strict THEN {[at |-> i, id |-> id, error |-> "unexpected element"]} ELSE {})
              \cup rest(seen \cup {id})
         ELSE IF MatcherMatch(elements[id], element.value).success
         THEN rest(seen \cup {id})
         ELSE {[at |-> i, id |-> id, error |-> "nested"]} \cup rest(seen \cup {id})

\* matchElements: the errors of the elements, then, in strict mode, of the
\* expected elements the slice does not have.
matchElements(elements, strict, actual) ==
    elementErrors(elements, strict, actual, 1, {})
    \cup {[at |-> 0, id |-> id, error |-> "missing expected element"] :
        id \in {e \in DOMAIN elements :
                  strict /\ \A i \in 1..Len(actual) : Identifier(actual[i]) # e}}

\* SliceMatcher.Match for a slice.
SliceMatcherMatch(elements, strict, actual) ==
    LET errs == matchElements(elements, strict, actual) IN
    IF errs # {} THEN [success |-> FALSE, err |-> TRUE, errs |-> errs]
    ELSE [success |-> TRUE, err |-> FALSE, errs |-> {}]

StructMatch ==
    /\ matchCall.pc = "call"
    /\ matchCall.matcher = "StructMatcher"
    /\ matchCall' = [matchCall EXCEPT !.pc = "done",
          !.result = StructMatcherMatch(matchCall.fields, matchCall.strict,
                                        matchCall.actual)]
    /\ UNCHANGED besideMatchers

SliceMatch ==
    /\ matchCall.pc = "call"
    /\ matchCall.matcher = "SliceMatcher"
    /\ matchCall' = [matchCall EXCEPT !.pc = "done",
          !.result = SliceMatcherMatch(matchCall.fields, matchCall.strict,
                                       matchCall.actual)]
    /\ UNCHANGED besideMatchers

NoResult == [success |-> FALSE, err |-> FALSE, errs |-> {}]

\* A StructMatcher and a struct, or a SliceMatcher and a slice, before Match.
MatcherInit ==
    /\ InitQueue /\ InitGCIdle /\ RegistryIdle /\ ProviderIdle
    /\ AggregatorIdle /\ SynchronizerIdle /\ ReadinessIdle /\ WaitIdle
    /\ \E strict \in BOOLEAN :
        \/ \E fields \in PartialMaps(FieldNames, Matchers), actual \in Structs :
              matchCall = [pc |-> "call", matcher |-> "StructMatcher",
                           fields |-> fields, strict |-> strict,
                           actual |-> actual, result |-> NoResult]
        \/ \E elements \in PartialMaps(ElementIDs, Matchers), actual \in Slices :
              matchCall = [pc |-> "call", matcher |-> "SliceMatcher",
                           fields |-> elements, strict |-> strict,
                           actual |-> actual, result |-> NoResult]

MatcherNext == StructMatch \/ SliceMatch

SpecMatchers == MatcherInit /\ [][MatcherNext]_vars

(***************************************************************************)
(* Audit aggregator backend (apiserver/pkg/audit/output/aggregator).       *)
(* The run() goroutine alone touches the cache, so each of its select      *)
(* cases is one step.  Time is counted in ticks of the clock.              *)
(***************************************************************************)

AuditEvents == [id : AuditIDs, ts : 0..MaxTimestamp]

\* The clock is followed up to the first time at which every timestamp is
\* older than the ttl; that value stands for every later time.
MaxClock == MaxTimestamp + ttl + 1

\* The aggregator fields the run() goroutine works on.
Aggregator ==
    [cache |-> cache, cacheHead |-> cacheHead, cacheTail |-> cacheTail,
     entries |-> entries, sent |-> <<>>]

\* cacheEntry methods
aggregate(es, e) == es[e].events[Len(es[e].events)]

complete(es, e) == Len(es[e].events) > 1

timestamp(es, e) == es[e].events[1].ts

\* cacheEntry.id()
entryID(es, e) == es[e].events[1].id

\* insert(): entry goes right after pos
insertAfter(a, e, pos) ==
    LET nxt == a.entries[pos].next
        es1 == [a.entries EXCEPT ![e].next = nxt, ![pos].next = e,
                                 ![e].prev = pos]
    IN  IF nxt # NilEntry
        THEN [a EXCEPT !.entries = [es1 EXCEPT ![nxt].prev = e]]
        ELSE [a EXCEPT !.entries = es1, !.cacheTail = e]

\* insert(): entry becomes the head
insertFirst(a, e) ==
    LET es1 == [a.entries EXCEPT ![e].next = a.cacheHead]
    IN  [a EXCEPT !.cacheHead = e,
                  !.entries = IF a.cacheHead # NilEntry
                              THEN [es1 EXCEPT ![a.cacheHead].prev = e]
                              ELSE es1]

\* Faulty variant of the walk of insert(): the entry always goes after the
\* tail
insertFromTail(a, e, pos) == insertAfter(a, e, pos)

\* insert(): the walk from the tail towards the head
RECURSIVE insertFrom(_, _, _)
insertFrom(a, e, pos) ==
    IF pos = NilEntry THEN insertFirst(a, e)
    ELSE IF timestamp(a.entries, pos) < timestamp(a.entries, e)
    THEN insertAfter(a, e, pos)
    ELSE insertFrom(a, e, a.entries[pos].prev)

insert(a, e) ==
    LET a1 == [a EXCEPT !.cache[entryID(a.entries, e)] = e]
    IN  IF a1.cacheHead = NilEntry
        THEN [a1 EXCEPT !.cacheHead = e, !.cacheTail = e]
        ELSE insertFrom(a1, e, a1.cacheTail)

\* Faulty variant of send(): cacheTail is not moved
sendKeepTail(a, e) ==
    LET p == a.entries[e].prev
        n == a.entries[e].next
        es1 == IF p # NilEntry THEN [a.entries EXCEPT ![p].next = n]
               ELSE a.entries
        es2 == IF n # NilEntry THEN [es1 EXCEPT ![n].prev = p] ELSE es1
    IN  [a EXCEPT !.cache[entryID(a.entries, e)] = NilEntry,
                  !.entries = es2,
                  !.cacheHead = IF a.cacheHead = e THEN n ELSE @,
                  !.sent = Append(@, [entry |-> e,
                                      event |-> aggregate(a.entries, e)])]

\* send(): the entry leaves the cache and its aggregate goes to the delegate
send(a, e) ==
    LET p == a.entries[e].prev
        n == a.entries[e].next
        es1 == IF p # NilEntry THEN [a.entries EXCEPT ![p].next = n]
               ELSE a.entries
        es2 == IF n # NilEntry THEN [es1 EXCEPT ![n].prev = p] ELSE es1
    IN  [a EXCEPT !.cache[entryID(a.entries, e)] = NilEntry,
                  !.entries = es2,
                  !.cacheHead = IF a.cacheHead = e THEN n ELSE @,
                  !.cacheTail = IF a.cacheTail = e THEN p ELSE @,
                  !.sent = Append(@, [entry |-> e,
                                      event |-> aggregate(a.entries, e)])]

\* The cacheEntry objects not allocated yet, and the next one to allocate.
FreeEntries(es) == {e \in EntryRefs : es[e].events = <<>>}

NewEntry(es) == CHOOSE e \in FreeEntries(es) : \A f \in FreeEntries(es) : e <= f

injest(a, ev) ==
    IF a.cache[ev.id] # NilEntry
    THEN LET e == a.cache[ev.id]
             a1 == [a EXCEPT !.entries[e].events = Append(@, ev)]
         IN  IF complete(a1.entries, e) THEN send(a1, e) ELSE a1
    ELSE LET e == NewEntry(a.entries)
             a1 == [a EXCEPT !.entries[e] = [NoEntry EXCEPT !.events = <<ev>>]]
         IN  IF complete(a1.entries, e) THEN send(a1, e) ELSE insert(a1, e)

\* expire(): the loop that flushes the head while it is older than the ttl
RECURSIVE expire(_, _)
expire(a, now) ==
    IF a.cacheHead # NilEntry /\ timestamp(a.entries, a.cacheHead) + ttl < now
    THEN expire(send(a, a.cacheHead), now)
    ELSE a

\* expire(): the time the timer is reset to fire at
ResetTimer(a, now) ==
    LET at == IF a.cacheHead # NilEntry
              THEN timestamp(a.entries, a.cacheHead) + ttl
              ELSE now + ttl
    IN  IF at > MaxClock THEN MaxClock ELSE at

\* The cacheEntry objects a pointer of the aggregator leads to.
RECURSIVE Reachable(_, _, _)
Reachable(es, from, n) ==
    IF n = 0 THEN from
    ELSE Reachable(es, from \cup ({es[e].prev : e \in from} \ {NilEntry})
                            \cup ({es[e].next : e \in from} \ {NilEntry}),
                   n - 1)

Live(a) ==
    Reachable(a.entries,
              ({a.cacheHead, a.cacheTail} \cup {a.cache[i] : i \in AuditIDs})
                  \ {NilEntry},
              MaxEntries)

\* The heap after garbage collection: a cacheEntry no pointer leads to is
\* gone, and its place can be allocated again.
Collected(a) == [e \in EntryRefs |-> IF e \in Live(a) THEN a.entries[e] ELSE NoEntry]

AggregatorUpdate(a) ==
    /\ cache' = a.cache
    /\ cacheHead' = a.cacheHead
    /\ cacheTail' = a.cacheTail
    /\ entries' = Collected(a)
    /\ sent' = a.sent

\* ProcessEvents(): one event goes into the buffer channel (the caller
\* blocks while the channel is full).
ProcessEvents(ev) ==
    /\ Len(buffer) < MaxBuffer
    /\ buffer' = Append(buffer, ev)
    /\ sent' = <<>>
    /\ UNCHANGED <<clock, expirationTimer, cache, cacheHead, cacheTail,
                   entries, stopCh, besideAggregator>>

\* run(): case ev := <-buffer
Injest ==
    /\ ~stopCh
    /\ buffer # <<>>
    /\ cache[Head(buffer).id] = NilEntry => FreeEntries(entries) # {}
    /\ \E a \in {injest(Aggregator, Head(buffer))} : AggregatorUpdate(a)
    /\ buffer' = Tail(buffer)
    /\ UNCHANGED <<clock, expirationTimer, stopCh, besideAggregator>>

\* run(): case <-a.expirationTimer
Expire ==
    /\ ~stopCh
    /\ clock >= expirationTimer
    /\ \E a \in {expire(Aggregator, clock)} :
          /\ AggregatorUpdate(a)
          /\ expirationTimer' = ResetTimer(a, clock)
    /\ UNCHANGED <<clock, buffer, stopCh, besideAggregator>>

\* run(): case <-stopCh
Stop ==
    /\ ~stopCh
    /\ stopCh' = TRUE
    /\ sent' = <<>>
    /\ UNCHANGED <<clock, expirationTimer, buffer, cache, cacheHead,
                   cacheTail, entries, besideAggregator>>

\* Time passes.
AdvanceClock ==
    /\ clock < MaxClock
    /\ clock' = clock + 1
    /\ sent' = <<>>
    /\ UNCHANGED <<expirationTimer, buffer, cache, cacheHead, cacheTail,
                   entries, stopCh, besideAggregator>>

AggregatorInit == InitQueue /\ InitGCIdle /\ OthersInit

AggregatorNext ==
    \/ \E ev \in AuditEvents : ProcessEvents(ev)
    \/ Injest
    \/ Expire
    \/ Stop
    \/ AdvanceClock

AggregatorFairness ==
    /\ WF_vars(Injest)
    /\ WF_vars(Expire)
    /\ WF_vars(AdvanceClock)

SpecAggregator == AggregatorInit /\ [][AggregatorNext]_vars /\ AggregatorFairness

(***************************************************************************)
(* Ticker Synchronizer (pkg/util/ticker).  tick() holds tickerLock from    *)
(* start to end, so NewTicker() runs between two calls of it; Stop() is an *)
(* atomic store that can fall between any two steps of tick().  Every read *)
(* of a stopped flag and every select is a step.  Periods are counted in   *)
(* units of the granularity.                                               *)
(***************************************************************************)

Allocated == {t \in TickerRefs : ticker[t].period # 0}

\* NewTicker(): the new Ticker becomes the head of the list of its period.
NewTicker(period) ==
    /\ tick.pc = "idle"
    /\ Allocated # TickerRefs
    /\ LET t == CHOOSE x \in TickerRefs \ Allocated :
                    \A y \in TickerRefs \ Allocated : x <= y
       IN  /\ ticker' = [ticker EXCEPT ![t] = [period |-> period,
                                               stopped |-> FALSE,
                                               next |-> tickers[period]]]
           /\ tickers' = [tickers EXCEPT ![period] = t]
    /\ sendResult' = NoSend
    /\ UNCHANGED <<count, tick, offers, observed, receiving, besideSynchronizer>>

\* Ticker.Stop()
TickerStop(t) ==
    /\ t \in Allocated
    /\ ~ticker[t].stopped
    /\ ticker' = [ticker EXCEPT ![t].stopped = TRUE]
    /\ sendResult' = NoSend
    /\ UNCHANGED <<tickers, count, tick, offers, observed, receiving,
                   besideSynchronizer>>

\* A receiver starts or stops waiting on the channel C of a Ticker.
Receive(t) ==
    /\ t \in Allocated
    /\ receiving' = IF t \in receiving THEN receiving \ {t}
                    ELSE receiving \cup {t}
    /\ sendResult' = NoSend
    /\ UNCHANGED <<tickers, ticker, count, tick, offers, observed,
                   besideSynchronizer>>

\* Run(): count++ and the call of tick(count), which takes the lock.  The
\* map holds the periods a Ticker was created for.
TickStart ==
    /\ tick.pc = "idle"
    /\ count' = (count + 1) % MaxCount
    /\ tick' = [TickIdle EXCEPT !.pc = "range",
                                !.todo = {ticker[t].period : t \in Allocated}]
    /\ offers' = [t \in TickerRefs |-> 0]
    /\ sendResult' = NoSend
    /\ UNCHANGED <<tickers, ticker, observed, receiving, besideSynchronizer>>

\* tick(): the next period of the range over the map, in any order; the
\* call returns when none is left.
TickRange ==
    /\ tick.pc = "range"
    /\ IF tick.todo = {}
       THEN tick' = TickIdle
       ELSE \E period \in tick.todo :
               IF count % period # 0
               THEN tick' = [tick EXCEPT !.todo = @ \ {period}]
               ELSE tick' = [tick EXCEPT !.todo = @ \ {period},
                                         !.period = period,
                                         !.t = tickers[period],
                                         !.pc = "first"]
    /\ sendResult' = NoSend
    /\ UNCHANGED <<tickers, ticker, count, offers, observed, receiving,
                   besideSynchronizer>>

\* tick(): the loop that finds the first non-stopped ticker, one read of a
\* stopped flag at a time, and the store of the new head.
TickFirst ==
    /\ tick.pc = "first"
    /\ IF tick.t # NoTicker /\ ticker[tick.t].stopped
       THEN /\ tick' = [tick EXCEPT !.t = ticker[tick.t].next]
            /\ observed' = observed \cup {tick.t}
            /\ UNCHANGED tickers
       ELSE /\ tickers' = [tickers EXCEPT ![tick.period] = tick.t]
            /\ tick' = [tick EXCEPT !.pc = "send"]
            /\ UNCHANGED observed
    /\ sendResult' = NoSend
    /\ UNCHANGED <<ticker, count, offers, receiving, besideSynchronizer>>

\* Faulty variant of the select: the send waits for a receiver
TickSendBlocking ==
    /\ tick.pc = "send"
    /\ IF tick.t = NoTicker
       THEN /\ tick' = [tick EXCEPT !.pc = "range"]
            /\ sendResult' = NoSend
            /\ UNCHANGED <<offers, receiving>>
       ELSE /\ tick.t \in receiving
            /\ sendResult' = [to |-> tick.t, delivered |-> TRUE]
            /\ receiving' = receiving \ {tick.t}
            /\ offers' = [offers EXCEPT ![tick.t] = @ + 1]
            /\ tick' = [tick EXCEPT !.pc = "next", !.next = ticker[tick.t].next]
    /\ UNCHANGED <<tickers, ticker, count, observed, besideSynchronizer>>

\* tick(): the test of the send loop and the select: the Tick goes to a
\* waiting receiver, or is dropped.
TickSend ==
    /\ tick.pc = "send"
    /\ IF tick.t = NoTicker
       THEN /\ tick' = [tick EXCEPT !.pc = "range"]
            /\ sendResult' = NoSend
            /\ UNCHANGED <<offers, receiving>>
       ELSE /\ sendResult' = [to |-> tick.t, delivered |-> tick.t \in receiving]
            /\ receiving' = receiving \ {tick.t}
            /\ offers' = [offers EXCEPT ![tick.t] = @ + 1]
            /\ tick' = [tick EXCEPT !.pc = "next", !.next = ticker[tick.t].next]
    /\ UNCHANGED <<tickers, ticker, count, observed, besideSynchronizer>>

\* Faulty variant of the loop that finds the next ticker: the stopped flag
\* is not looked at
TickNextSkipAll ==
    /\ tick.pc = "next"
    /\ IF tick.next # NoTicker
       THEN /\ tick' = [tick EXCEPT !.next = ticker[tick.next].next]
            /\ UNCHANGED <<ticker, observed>>
       ELSE /\ ticker' = [ticker EXCEPT ![tick.t].next = tick.next]
            /\ tick' = [tick EXCEPT !.t = tick.next, !.pc = "send"]
            /\ UNCHANGED observed
    /\ sendResult' = NoSend
    /\ UNCHANGED <<tickers, count, offers, receiving, besideSynchronizer>>

\* tick(): the loop that finds the next non-stopped ticker, one read of a
\* stopped flag at a time, and the store that unlinks the stopped ones.
TickNext ==
    /\ tick.pc = "next"
    /\ IF tick.next # NoTicker /\ ticker[tick.next].stopped
       THEN /\ tick' = [tick EXCEPT !.next = ticker[tick.next].next]
            /\ observed' = observed \cup {tick.next}
            /\ UNCHANGED ticker
       ELSE /\ ticker' = [ticker EXCEPT ![tick.t].next = tick.next]
            /\ tick' = [tick EXCEPT !.t = tick.next, !.pc = "send"]
            /\ UNCHANGED observed
    /\ sendResult' = NoSend
    /\ UNCHANGED <<tickers, count, offers, receiving, besideSynchronizer>>

SynchronizerInit == InitQueue /\ InitGCIdle /\ OthersInit

SynchronizerNext ==
    \/ \E period \in Periods : NewTicker(period)
    \/ \E t \in TickerRefs : TickerStop(t)
    \/ \E t \in TickerRefs : Receive(t)
    \/ TickStart
    \/ TickRange
    \/ TickFirst
    \/ TickSend
    \/ TickNext

SpecSynchronizer == SynchronizerInit /\ [][SynchronizerNext]_vars

(***************************************************************************)
(* readinessCheck (test/e2e_node/services/util.go).  The loop test, the    *)
(* select and the poll are steps of the one goroutine that runs the call;  *)
(* the senders on errCh, the health of the URLs and the clock are the      *)
(* environment.                                                            *)
(***************************************************************************)

URLs == {"u1", "u2"}

\* The clock is followed up to the first second after endTime, which stands
\* for every later time.
MaxWallClock == ServerStartTimeout + 1

\* A sender hands a value to errCh and waits for it to be received.
SendErr(v) ==
    /\ ~errCh.closed
    /\ errCh.value = "none"
    /\ errCh' = [errCh EXCEPT !.value = v]
    /\ UNCHANGED <<wallClock, check, closedReads, besideReadiness>>

\* The sender closes errCh.
CloseErrCh ==
    /\ ~errCh.closed
    /\ errCh.value = "none"
    /\ errCh' = [errCh EXCEPT !.closed = TRUE]
    /\ UNCHANGED <<wallClock, check, closedReads, besideReadiness>>

\* Time passes.
Second ==
    /\ wallClock < MaxWallClock
    /\ wallClock' = wallClock + 1
    /\ UNCHANGED <<errCh, check, closedReads, besideReadiness>>

\* for endTime.After(time.Now()): the select is entered and time.After
\* starts a timer of one second, or the timeout error is returned.
LoopTest ==
    /\ check.pc = "loop"
    /\ IF check.endTime > wallClock
       THEN check' = [check EXCEPT !.pc = "select", !.after = wallClock + 1]
       ELSE check' = [check EXCEPT !.pc = "returned", !.result = "timeout"]
    /\ UNCHANGED <<wallClock, errCh, closedReads, besideReadiness>>

\* Faulty variant of the receive: the closed channel is not replaced by
\* blockCh
ReceiveErrKeepChannel ==
    /\ check.pc = "select"
    /\ check.errCh = "errCh"
    /\ errCh.closed \/ errCh.value # "none"
    /\ IF errCh.closed
       THEN /\ check' = [check EXCEPT !.pc = "loop"]
            /\ closedReads' = IF closedReads < MaxClosedReads
                              THEN closedReads + 1 ELSE closedReads
            /\ UNCHANGED errCh
       ELSE /\ errCh' = [errCh EXCEPT !.value = "none"]
            /\ check' = IF errCh.value = "error"
                        THEN [check EXCEPT !.pc = "returned", !.result = "error"]
                        ELSE [check EXCEPT !.pc = "loop"]
            /\ UNCHANGED closedReads
    /\ UNCHANGED <<wallClock, besideReadiness>>

\* case err, ok := <-errCh.  blockCh never has a value and is closed only
\* when the call returns, so the case is ready only while the local errCh
\* is the caller's channel.
ReceiveErr ==
    /\ check.pc = "select"
    /\ check.errCh = "errCh"
    /\ errCh.closed \/ errCh.value # "none"
    /\ IF errCh.closed
       THEN /\ check' = [check EXCEPT !.pc = "loop", !.errCh = "blockCh"]
            /\ closedReads' = IF closedReads < MaxClosedReads
                              THEN closedReads + 1 ELSE closedReads
            /\ UNCHANGED errCh
       ELSE /\ errCh' = [errCh EXCEPT !.value = "none"]
            /\ check' = IF errCh.value = "error"
                        THEN [check EXCEPT !.pc = "returned", !.result = "error"]
                        ELSE [check EXCEPT !.pc = "loop"]
            /\ UNCHANGED closedReads
    /\ UNCHANGED <<wallClock, besideReadiness>>

\* case <-time.After(time.Second): the URLs are checked, healthy being the
\* URLs whose healthCheck would return true.
Poll(healthy) ==
    /\ check.pc = "select"
    /\ wallClock >= check.after
    /\ check' = IF healthy = URLs
                THEN [check EXCEPT !.pc = "returned", !.result = "nil"]
                ELSE [check EXCEPT !.pc = "loop"]
    /\ UNCHANGED <<wallClock, errCh, closedReads, besideReadiness>>

ReadinessInit == InitQueue /\ InitGCIdle /\ OthersInit

ReadinessNext ==
    \/ \E v \in {"nil", "error"} : SendErr(v)
    \/ CloseErrCh
    \/ Second
    \/ LoopTest
    \/ ReceiveErr
    \/ \E healthy \in SUBSET URLs : Poll(healthy)

ReadinessFairness ==
    /\ WF_vars(Second)
    /\ WF_vars(LoopTest)
    /\ WF_vars(ReceiveErr \/ \E healthy \in SUBSET URLs : Poll(healthy))

SpecReadiness == ReadinessInit /\ [][ReadinessNext]_vars /\ ReadinessFairness

(***************************************************************************)
(* wait.ForObjectCondition (test/e2e/framework wait helpers).  Every call  *)
(* of the function handed to PollImmediate is a step, so is the wait for   *)
(* the next poll and the return of ForObjectCondition.                     *)
(***************************************************************************)

\* wait.ErrWaitTimeout and TimeoutError(...)
ErrWaitTimeout == Err("ErrWaitTimeout", 0)

TimeoutError == Err("timeoutError", 0)

\* What objectFetcher can return as its error: API errors with the reasons
\* Timeout, TooManyRequests and NotFound, an API error that carries a
\* Retry-After delay, another error, and the two timeout errors of the wait
\* packages (a fetcher that waits itself returns them).
FetchErrors ==
    {Err(c, 0) : c \in {"Timeout", "TooManyRequests", "NotFound", "Other"}}
        \cup {Err("RetryAfter", d) : d \in 1..MaxDelay}
        \cup {ErrWaitTimeout, TimeoutError}

\* What one call of objectFetcher and condition gives: a fetch error, or an
\* object on which condition returns true, false or an error.
Fetches ==
    [obj : {FALSE}, err : FetchErrors, cond : {"none"}]
        \cup [obj : {TRUE}, err : {NoError}, cond : {"true", "false", "error"}]

ConditionError == Err("Other", 0)

\* fmt.Errorf("error while waiting ...: %w", err)
Wrapped(err) == [err EXCEPT !.wrapped = TRUE]

\* IsTimeout(): the error is wait.ErrWaitTimeout itself or a *timeoutError
IsTimeout(err) ==
    ~err.wrapped /\ err.class \in {"ErrWaitTimeout", "timeoutError"}

shouldRetry(err, o) ==
    IF o.DisableRetries THEN [retry |-> FALSE, retryAfter |-> 0]
    ELSE IF err.delay > 0 THEN [retry |-> TRUE, retryAfter |-> err.delay]
    ELSE IF \/ err.class \in {"Timeout", "TooManyRequests"}
            \/ err.class = "NotFound" /\ o.RetryNotFound
    THEN [retry |-> TRUE, retryAfter |-> 0]
    ELSE [retry |-> FALSE, retryAfter |-> 0]

\* ForObjectCondition is called with some Opts; PollImmediate calls the
\* function at once.
WaitCall(o) ==
    /\ poll.pc = "idle"
    /\ opts' = o
    /\ poll' = [poll EXCEPT !.pc = "poll"]
    /\ UNCHANGED <<elapsed, besideWait>>

\* PollImmediate is over with err: what the function returned, or
\* wait.ErrWaitTimeout.  done and timedOut record how it ended: condition
\* returned true, or the time was up.
Ended(p, err) == [p EXCEPT !.pc = "return", !.err = err]

\* The function handed to PollImmediate, for one outcome of the fetch.
Fetch(f) ==
    /\ poll.pc = "poll"
    /\ IF ~f.obj
       THEN LET p == [poll EXCEPT !.lastFetchError = f.err]
                r == shouldRetry(f.err, opts)
            IN  IF r.retry
                THEN IF elapsed + r.retryAfter > PollTimeout
                     THEN /\ poll' = Ended([p EXCEPT !.timedOut = TRUE],
                                          ErrWaitTimeout)
                          /\ UNCHANGED elapsed
                     ELSE /\ poll' = [p EXCEPT !.pc = "wait"]
                          /\ elapsed' = elapsed + r.retryAfter
                ELSE /\ poll' = Ended(p, f.err)
                     /\ UNCHANGED elapsed
       ELSE LET p == [poll EXCEPT !.lastFetchError = NoError, !.fetched = TRUE]
            IN  /\ poll' = CASE f.cond = "error" -> Ended(p, ConditionError)
                             [] f.cond = "true" ->
                                   Ended([p EXCEPT !.done = TRUE], NoError)
                             [] OTHER -> [p EXCEPT !.pc = "wait"]
                /\ UNCHANGED elapsed
    /\ UNCHANGED <<opts, besideWait>>

\* PollImmediate waits for the next tick of PollPeriod, or for the timeout.
WaitTick ==
    /\ poll.pc = "wait"
    /\ IF elapsed + PollPeriod < PollTimeout
       THEN /\ elapsed' = elapsed + PollPeriod
            /\ poll' = [poll EXCEPT !.pc = "poll"]
       ELSE /\ elapsed' = IF elapsed < PollTimeout THEN PollTimeout ELSE elapsed
            /\ poll' = Ended([poll EXCEPT !.timedOut = TRUE], ErrWaitTimeout)
    /\ UNCHANGED <<opts, besideWait>>

\* What ForObjectCondition returns for the error of PollImmediate.
returnValue(err, lastFetchError) ==
    IF IsTimeout(err)
    THEN IF lastFetchError # NoError THEN lastFetchError ELSE TimeoutError
    ELSE IF err # NoError THEN Wrapped(err)
    ELSE NoError

WaitReturn ==
    /\ poll.pc = "return"
    /\ poll' = [poll EXCEPT !.pc = "returned",
                            !.result = returnValue(poll.err, poll.lastFetchError)]
    /\ UNCHANGED <<opts, elapsed, besideWait>>

WaitInit == InitQueue /\ InitGCIdle /\ OthersInit

WaitNext ==
    \/ \E o \in [RetryNotFound : BOOLEAN, DisableRetries : BOOLEAN] : WaitCall(o)
    \/ \E f \in Fetches : Fetch(f)
    \/ WaitTick
    \/ WaitReturn

SpecWait == WaitInit /\ [][WaitNext]_vars

(***************************************************************************)
(* Properties.                                                             *)
(***************************************************************************)

HasGCFinalizer(obj) ==
    IF obj = Absent THEN FALSE ELSE GCFinalizer \in obj.fins

\* Blocking dependents of o that exist in the store.
StoreBlockingDependents(st, o) ==
    {d \in Ids : IF st[d] = Absent THEN FALSE ELSE Ref(o, TRUE) \in st[d].owners}

\* Nodes of the graph that list o as an owner with BlockSynchronousGC.
ObservedBlockingDependents(o) ==
    {d \in Ids : IF uidToNode[d] = Absent THEN FALSE
                 ELSE Ref(o, TRUE) \in uidToNode[d].owners}

\* o has owners, and o and all of them are marked "GC in progress".
AllOwnersInGC(o) ==
    /\ uidToNode[o] # Absent
    /\ uidToNode[o].gcInProgress
    /\ uidToNode[o].owners # {}
    /\ \A r \in uidToNode[o].owners :
          IF uidToNode[r.owner] = Absent THEN FALSE
          ELSE uidToNode[r.owner].gcInProgress

\* The collecting-garbage finalizer of o is removed in this step.
FinalizerRemoved(o) == HasGCFinalizer(store[o]) /\ ~HasGCFinalizer(store'[o])

\* C1 (as stated): the collecting-garbage finalizer of an object is removed
\* only when none of its blocking dependents exists in the store any more.
C1_FinalizerOutlivesStoreDependents ==
    [][\A o \in Ids :
         FinalizerRemoved(o) => StoreBlockingDependents(store, o) = {}]_vars

\* C1 (amended): the collecting-garbage finalizer of an object is removed
\* only when the garbage collector's graph holds no blocking dependent of
\* it, or when the object and all of its owners are marked "GC in progress"
\* (cycle breaking).
C1_FinalizerOutlivesObservedDependents ==
    [][\A o \in Ids :
         FinalizerRemoved(o) =>
            /\ uidToNode[o] # Absent
            /\ \/ ObservedBlockingDependents(o) = {}
               \/ AllOwnersInGC(o)]_vars

\* C1 witness: the finalizer of an object has just been removed by the
\* garbage collector after a blocking dependent of it had been observed and
\* then deleted.
C1_Witness ==
    /\ storeCall.kind = "PatchFinalizers"
    /\ storeCall.result = "ok"
    /\ uidToNode[storeCall.id] # Absent
    /\ uidToNode[storeCall.id].owners = {}
    /\ \E d \in Ids : store[d] = Absent /\ watch[d] = <<>> /\ uidToNode[d] = Absent

\* C2: ItemProcessor issues no Delete for an identity whose node is
\* "GC in progress" and has a live blocking dependent.
C2_NoDeleteWhileBlocked ==
    storeCall.kind = "Delete" =>
        ~(/\ uidToNode[storeCall.id] # Absent
          /\ uidToNode[storeCall.id].gcInProgress
          /\ ObservedBlockingDependents(storeCall.id) # {})

\* C2 witness: an identity that is "GC in progress" with a live blocking
\* dependent has just been processed, and no store call was issued for it.
C2_Witness ==
    /\ storeCall.kind = None
    /\ storeCall.id # None
    /\ uidToNode[storeCall.id] # Absent
    /\ uidToNode[storeCall.id].gcInProgress
    /\ ObservedBlockingDependents(storeCall.id) # {}

\* Nothing is pending: no undelivered event, an empty queue, idle workers.
Quiescent ==
    /\ \A i \in Ids : watch[i] = <<>>
    /\ dirtyQueue.queue = <<>>
    /\ \A w \in GCWorkers : workerItem[w] = None

StoreOwners(d) == IF store[d] = Absent THEN {} ELSE OwnerIds(store[d].owners)

\* The owner references of the store have no cycle through a.
RECURSIVE Reaches(_, _, _)
Reaches(a, b, n) ==
    IF n = 0 THEN FALSE
    ELSE \E o \in StoreOwners(a) : o = b \/ Reaches(o, b, n - 1)

Acyclic == \A a \in Ids : ~Reaches(a, a, Cardinality(Ids))

\* C3: in an acyclic owner graph, once the queue has been drained and
\* nothing is pending, no object still carries the collecting-garbage
\* finalizer when none of its blocking dependents is left in the store.
C3_NoStuckNode ==
    (Acyclic /\ Quiescent) =>
        \A o \in Ids :
            ~(HasGCFinalizer(store[o]) /\ StoreBlockingDependents(store, o) = {})

\* C4: after the synchronous-GC delete of "A", once nothing is pending no
\* object whose only owner is "A" is left in the store.
C4_NoDependentLeftBehind ==
    Quiescent => \A d \in Ids : StoreOwners(d) # {"A"}

\* C5: when "A" and "B" own each other with blocking references and both
\* carry the collecting-garbage finalizer, both finalizers are eventually
\* removed.
C5_CycleBroken ==
    (/\ "A" \in StoreOwners("B") /\ "B" \in StoreOwners("A")
     /\ HasGCFinalizer(store["A"]) /\ HasGCFinalizer(store["B"]))
        ~> (~HasGCFinalizer(store["A"]) /\ ~HasGCFinalizer(store["B"]))

\* C5 witness: both members of the cycle had the finalizer removed and are
\* gone from the store.
C5_Witness ==
    /\ store["A"] = Absent
    /\ store["B"] = Absent
    /\ storeCall.kind = "PatchFinalizers"
    /\ storeCall.result = "ok"

\* C6: a delete request with both SynchronousGarbageCollection and
\* OrphanDependents set is answered InvalidOptionsError and leaves the
\* store, the watch stream, the graph and the queue as they were.
C6_InvalidOptionsRejected ==
    [][(IF apiResponse'.result = None THEN FALSE
        ELSE apiResponse'.sync /\ apiResponse'.orphan)
       => /\ apiResponse'.result = "InvalidOptionsError"
          /\ UNCHANGED <<store, watch, uidToNode, dirtyQueue, workerItem>>]_vars

\* C6 witness: a request with both options has just been rejected while an
\* object was waiting in the store for its garbage to be collected.
C6_Witness ==
    /\ apiResponse.result = "InvalidOptionsError"
    /\ \E i \in Ids : store[i] # Absent

\* The graph and the queue after the head event of id has been ingested n
\* more times.
RECURSIVE IngestTimes(_, _, _, _, _)
IngestTimes(g, q, id, ev, n) ==
    IF n = 0 THEN [graph |-> g, queue |-> q]
    ELSE LET r == processEvent(g, id, ev)
         IN  IngestTimes(r.graph, AddAll(q, r.enq), id, ev, n - 1)

C8_NoConcurrentProcessing ==
    \A v \in Workers, w \in Workers :
        (v # w /\ workerItem[v] # None) => workerItem[v] # workerItem[w]

\* C8 witness: two workers are busy and one of the identities they hold has
\* been enqueued again meanwhile.
C8_Witness ==
    \E v \in Workers, w \in Workers :
        /\ v # w
        /\ workerItem[v] # None
        /\ workerItem[w] # None
        /\ workerItem[v] \in dirtyQueue.dirty

\* C9: the queue holds each identity at most once; enqueuing an identity
\* that is already queued changes nothing; an identity enqueued while it is
\* being processed is not queued until its processing completes, and is then
\* queued exactly once.
C9_Deduplication ==
    [][/\ \A i \in Ids : SeqCount(dirtyQueue'.queue, i) <= 1
       /\ (lastOp'.op = "enqueue" /\ lastOp'.item \in SeqSet(dirtyQueue.queue))
             => dirtyQueue' = dirtyQueue
       /\ (lastOp'.op = "enqueue" /\ lastOp'.result = "ok"
                                  /\ lastOp'.item \in dirtyQueue.processing)
             => /\ lastOp'.item \notin SeqSet(dirtyQueue'.queue)
                /\ lastOp'.item \in dirtyQueue'.dirty
       /\ (lastOp'.op = "get" /\ lastOp'.result = "ok")
             => lastOp'.item \notin SeqSet(dirtyQueue'.queue)
       /\ (lastOp'.op = "done" /\ lastOp'.item \in dirtyQueue.dirty)
             => SeqCount(dirtyQueue'.queue, lastOp'.item) = 1]_vars

\* C9 witness: an identity enqueued while it was being processed has just
\* been queued again by the completion of that processing.
C9_Witness ==
    /\ lastOp.op = "done"
    /\ lastOp.item \in SeqSet(dirtyQueue.queue)
    /\ dirtyQueue.processing # {}

\* C10: after shutdown every enqueue fails with QueueClosedError and adds
\* nothing, and every item in flight can still be completed.
C10_Shutdown ==
    [][dirtyQueue.shuttingDown =>
         /\ lastOp'.op = "enqueue" =>
               /\ lastOp'.result = "QueueClosedError"
               /\ dirtyQueue' = dirtyQueue
         /\ Items(dirtyQueue') \subseteq Items(dirtyQueue)
         /\ \A w \in Workers :
               workerItem[w] # None =>
                  /\ workerItem[w] \in dirtyQueue.processing
                  /\ ENABLED QDone(w)
         /\ lastOp'.op = "done" =>
               dirtyQueue'.processing = dirtyQueue.processing \ {lastOp'.item}]_vars

\* C10 witness: the queue is shut down, an enqueue has just been refused and
\* an item that was in flight at shutdown is still held by a worker.
C10_Witness ==
    /\ dirtyQueue.shuttingDown
    /\ lastOp.op = "enqueue"
    /\ lastOp.result = "QueueClosedError"
    /\ dirtyQueue.processing # {}

C12_DependentsInverseOfOwners ==
    \A o \in Ids, d \in Ids :
        (uidToNode[o] # Absent /\ d \in uidToNode[o].dependents)
            <=> (uidToNode[d] # Absent /\ o \in OwnerIds(uidToNode[d].owners))

\* C12 witness: a virtual owner node holds a back-reference while another
\* node has been removed from the graph after having been observed.
C12_Witness ==
    /\ \E o \in Ids : /\ uidToNode[o] # Absent
                      /\ uidToNode[o].virtual
                      /\ uidToNode[o].dependents # {}
    /\ \E i \in Ids : uidToNode[i] = Absent /\ store[i] = Absent

\* A step that ingests the Deleted event of id.
IngestsDeleted(id) ==
    /\ watch[id] # <<>>
    /\ Head(watch[id]).type = "Deleted"
    /\ watch'[id] = Tail(watch[id])

\* C13: a Deleted event removes the node only when it has no dependents,
\* otherwise the graph is left unchanged; no node that another node lists
\* as owner is absent from the graph.
C13_RemoveOnlyWithoutDependents ==
    [][/\ \A id \in Ids :
            IngestsDeleted(id) =>
                IF HasDependents(uidToNode, id)
                THEN uidToNode' = uidToNode
                ELSE uidToNode'[id] = Absent
       /\ \A d \in Ids, o \in Ids :
            (uidToNode'[d] # Absent /\ o \in OwnerIds(uidToNode'[d].owners))
                => uidToNode'[o] # Absent]_vars

\* C13 witness: the Deleted event of a node that still has dependents is
\* about to be ingested.
C13_Witness ==
    \E id \in Ids :
        /\ watch[id] # <<>>
        /\ Head(watch[id]).type = "Deleted"
        /\ HasDependents(uidToNode, id)
        /\ ~uidToNode[id].virtual

\* The order of scenario 1 as a state predicate: "A" keeps the finalizer
\* while "B" is in the graph, "B" leaves the graph after it left the store,
\* and the node of "A" leaves the graph after "A" left the store.
Scenario1Order ==
    /\ uidToNode["B"] # Absent => HasGCFinalizer(store["A"])
    /\ uidToNode["B"] = Absent => store["B"] = Absent
    /\ uidToNode["A"] = Absent => store["A"] = Absent

\* The steps of scenario 1: ingesting Deleted("B") removes "B" from the
\* graph and enqueues "A", whose blocking dependent is then gone; processing
\* "A" after that issues the finalizer patch; ingesting Deleted("A") removes
\* the node of "A".
Scenario1Steps ==
    /\ IngestsDeleted("B") =>
          /\ uidToNode'["B"] = Absent
          /\ "A" \in dirtyQueue'.dirty
          /\ ~isBlockingDependentPresent(uidToNode', "A")
    /\ (/\ uidToNode["B"] = Absent /\ uidToNode["A"] # Absent
        /\ \E w \in GCWorkers : workerItem[w] = "A" /\ workerItem'[w] = None)
          => /\ storeCall'.kind = "PatchFinalizers"
             /\ storeCall'.id = "A"
    /\ IngestsDeleted("A") => uidToNode'["A"] = Absent

\* C14: scenario 1 runs in its order: the finalizer of "A" is kept while
\* "B" is in the graph; Deleted("B") removes "B" and enqueues "A"; the
\* finalizer patch for "A" follows; the node of "A" is removed on
\* Deleted("A"), which eventually happens.
C14_Scenario1 ==
    /\ []Scenario1Order
    /\ [][Scenario1Steps]_vars
    /\ <>(uidToNode["A"] = Absent /\ uidToNode["B"] = Absent)

\* C14 witness: "B" has left the graph, and the finalizer patch for "A" has
\* just succeeded.
C14_Witness ==
    /\ uidToNode["B"] = Absent
    /\ uidToNode["A"] # Absent
    /\ storeCall.kind = "PatchFinalizers"
    /\ storeCall.id = "A"
    /\ storeCall.result = "ok"
    /\ store["A"] = Absent

\* C15: scenario 2: while every dependent the graph holds for "A" is
\* non-blocking, each processing of "A" marked "GC in progress" issues the
\* finalizer patch for "A", whether or not a dependent is still there.
C15_Scenario2 ==
    [][(/\ uidToNode["A"] # Absent
        /\ uidToNode["A"].gcInProgress
        /\ ObservedBlockingDependents("A") = {}
        /\ \E w \in GCWorkers : workerItem[w] = "A" /\ workerItem'[w] = None)
          => /\ storeCall'.kind = "PatchFinalizers"
             /\ storeCall'.id = "A"]_vars

\* C15 witness: the finalizer patch for "A" has just succeeded while its
\* non-blocking dependent "B" is still in the store and in the graph.
C15_Witness ==
    /\ storeCall.kind = "PatchFinalizers"
    /\ storeCall.id = "A"
    /\ storeCall.result = "ok"
    /\ ~HasGCFinalizer(store["A"])
    /\ store["B"] # Absent
    /\ ~store["B"].delTs
    /\ uidToNode["B"] # Absent
    /\ "B" \in dependentsOf(uidToNode, "A")

\* C16: scenario 4: once the Deleted event of the never-observed owner "A"
\* has been ingested after its dependent "B" and nothing is pending, "A"
\* counts as absent for its dependents and "B" has been deleted.
C16_Scenario4 ==
    Quiescent => (ownerAbsent(uidToNode, "A") /\ store["B"] = Absent)

\* The first versions registered for id, under either level.
RegisteredVersions(id) ==
    LET of(m) == IF id \in DOMAIN m
                 THEN {m[id][k].firstVersion : k \in 1..Len(m[id])} ELSE {}
    IN  of(baselineChecks) \cup of(restrictedChecks)

\* The versions of vs that are not newer than version.
NotNewer(vs, version) == {x \in vs : ~Older(version, x)}

\* The newest version of a non-empty set.
Newest(vs) == CHOOSE x \in vs : \A y \in vs : ~Older(x, y)

\* C17: CheckForIDAndVersion returns the check of the newest first version
\* not newer than the version asked for, and an error when the ID is not
\* registered or no first version registered for it is old enough.
C17_CheckForIDAndVersion ==
    \A id \in CheckIDs \cup {"noexist"}, version \in QueryVersions :
        LET res == CheckForIDAndVersionResult(baselineChecks, restrictedChecks,
                                              id, version)
            eligible == NotNewer(RegisteredVersions(id), version)
        IN  IF eligible = {}
            THEN res.outcome = "error"
            ELSE /\ res.outcome = "ok"
                 /\ res.check = versionedCheck(id, Newest(eligible))

\* The checks expected from one map: for every ID with a first version not
\* newer than version, the check of the newest such version.
ExpectedChecks(m, version) ==
    LET versions(id) == {m[id][k].firstVersion : k \in 1..Len(m[id])} IN
    {versionedCheck(id, Newest(NotNewer(versions(id), version))) :
        id \in {x \in DOMAIN m : NotNewer(versions(x), version) # {}}}

\* C18: ChecksForLevelAndVersion returns nothing and no error for
\* privileged, an error for an invalid level, and otherwise one check per
\* eligible ID, the newest not newer than the version: from the baseline
\* checks for baseline, from both maps for restricted.
C18_ChecksForLevelAndVersion ==
    \A level \in Levels, version \in QueryVersions :
        LET res == ChecksForLevelAndVersionResult(baselineChecks,
                                                  restrictedChecks, level, version)
        IN  /\ level = LevelPrivileged => (res.outcome = "ok" /\ res.checks = {})
            /\ ~LevelValid(level) => res.outcome = "error"
            /\ level = LevelBaseline =>
                  /\ res.outcome = "ok"
                  /\ res.checks = ExpectedChecks(baselineChecks, version)
            /\ level = LevelRestricted =>
                  /\ res.outcome = "ok"
                  /\ res.checks = ExpectedChecks(baselineChecks, version)
                                    \cup ExpectedChecks(restrictedChecks, version)
            /\ \A c \in res.checks, d \in res.checks : c.id = d.id => c = d

\* C18 witness: an ID with two versions is registered under baseline,
\* another ID under restricted, and the checks of a level were just fetched.
C18_Witness ==
    /\ regCall.op = "ChecksForLevelAndVersion"
    /\ regCall.outcome = "ok"
    /\ \E id \in DOMAIN baselineChecks : Len(baselineChecks[id]) = 2
    /\ DOMAIN restrictedChecks # {}

\* The checks maps AddCheck is called with.
CheckMaps ==
    UNION {[keys -> CheckIDs] :
             keys \in {k \in SUBSET VersionKeys : Cardinality(k) <= MaxChecks}}

\* C19: AddCheck fails and leaves the registry unchanged when the ID is
\* already registered under either level or the level is not baseline or
\* restricted; no ID is registered under both levels.
C19_AddCheck ==
    /\ DOMAIN baselineChecks \cap DOMAIN restrictedChecks = {}
    /\ \A level \in Levels, checks \in CheckMaps :
          LET res == AddCheckResult(baselineChecks, restrictedChecks, level, checks)
              ids == IF DOMAIN checks = {} THEN {""}
                     ELSE {checks[k] : k \in DOMAIN checks}
              registered == DOMAIN baselineChecks \cup DOMAIN restrictedChecks
          IN  /\ (ids \cap registered # {}
                     \/ level \notin {LevelBaseline, LevelRestricted}) => res.err
              /\ res.err => /\ res.baseline = baselineChecks
                            /\ res.restricted = restrictedChecks

\* C19 witness: one ID is registered under baseline and another under
\* restricted, and an AddCheck call has just been refused.
C19_Witness ==
    /\ regCall.op = "AddCheck"
    /\ regCall.outcome = "error"
    /\ "a" \in DOMAIN baselineChecks
    /\ "b" \in DOMAIN restrictedChecks

\* C20: a finished GetNode call returned the getter's node when the getter
\* succeeded; when it failed, the initial node (cached or freshly produced)
\* when there is one; and an error with a nil node only when the getter
\* failed and initialNodeFn was unset or failed with nothing cached.
C20_GetNode ==
    \A c \in Callers :
        getNode[c].pc = "done" =>
            LET call == getNode[c] IN
            /\ ~call.getter.err =>
                  call.result = [node |-> call.getter.node, err |-> FALSE]
            /\ (call.getter.err /\ call.fallback = "cached") =>
                  call.result = [node |-> InitNode, err |-> FALSE]
            /\ (call.getter.err /\ call.fallback = "fresh") =>
                  call.result.node = call.fn.node
            /\ (call.result.err /\ call.result.node = Nil) =>
                  /\ call.getter.err
                  /\ \/ call.fallback = "unset"
                     \/ call.fallback = "fresh" /\ call.fn.err /\ call.fn.node = Nil
            /\ (call.getter.err /\ call.fallback = "unset") =>
                  call.result = [node |-> Nil, err |-> TRUE]
            /\ initialNode \in {Nil, InitNode}

\* C20 witness: with the initial node cached, one caller has just been
\* served from the cache after the getter failed, while another got the
\* getter's node.
C20_Witness ==
    /\ initialNode = InitNode
    /\ \E c \in Callers : /\ getNode[c].pc = "done"
                          /\ getNode[c].fallback = "cached"
    /\ \E c \in Callers : /\ getNode[c].pc = "done"
                          /\ getNode[c].result.node = FetchNode

\* C21: over any interleaving of GetNode calls, initialNodeFn returns
\* successfully at most once.
C21_InitialNodeFnSucceedsOnce == fnSuccesses <= 1


\* A finished call that found no cached UID and whose fetch failed got an
\* error with a nil reference (GetObjectRef) or a reference with the node
\* name as UID (GetEventRef); a finished call that found a cached UID got a
\* reference with that UID.
RefResultsAsCached ==
    \A c \in Callers :
        getRef[c].pc = "done" =>
            LET call == getRef[c] IN
            /\ (call.cached = Nil /\ call.getter.err /\ call.op = "GetObjectRef") =>
                  (call.result.err /\ call.result.ref = Nil)
            /\ (call.cached = Nil /\ call.getter.err /\ call.op = "GetEventRef") =>
                  call.result.ref.uid = TestNodeName
            /\ call.cached # Nil =>
                  (~call.result.err /\ call.result.ref.uid = call.cached)

\* The UID cached by a successful fetch stays the cached UID.
CachedUIDKept == nodeUID # Nil => nodeUID' = nodeUID

\* C22: before a UID has been fetched GetObjectRef returns an error with a
\* nil reference and GetEventRef a reference with the node name as UID; once
\* a fetch has succeeded every later call returns that cached UID.
C22_CachedUID == []RefResultsAsCached /\ [][CachedUIDKept]_vars

\* The matcher registered for key k, if any, reports a match for the value v.
Satisfied(fields, k, v) ==
    k \in DOMAIN fields => MatcherMatch(fields[k], v).success

\* C23: for a struct, StructMatcher.Match returns success = true and a nil
\* error exactly when every field with a matcher in Fields satisfies it and,
\* in strict mode, the struct's field names are the keys of Fields.
C23_StructMatcher ==
    (matchCall.pc = "done" /\ matchCall.matcher = "StructMatcher") =>
        LET call == matchCall IN
        (call.result.success /\ ~call.result.err) <=>
            /\ \A f \in DOMAIN call.actual : Satisfied(call.fields, f, call.actual[f])
            /\ call.strict => DOMAIN call.actual = DOMAIN call.fields

SliceIDs(actual) == {Identifier(actual[i]) : i \in 1..Len(actual)}

NoDuplicateIDs(actual) ==
    \A i, j \in 1..Len(actual) :
        Identifier(actual[i]) = Identifier(actual[j]) => i = j

\* No matcher of Elements returns an error for an element of the slice.
NoMatcherError(call) ==
    \A i \in 1..Len(call.actual) :
        Identifier(call.actual[i]) \in DOMAIN call.fields =>
            ~MatcherMatch(call.fields[Identifier(call.actual[i])],
                          call.actual[i].value).err

SliceMatches(call) ==
    /\ NoDuplicateIDs(call.actual)
    /\ \A i \in 1..Len(call.actual) :
          Satisfied(call.fields, Identifier(call.actual[i]), call.actual[i].value)
    /\ call.strict => SliceIDs(call.actual) = DOMAIN call.fields

\* C24: for a slice, SliceMatcher.Match returns success = true and a nil
\* error exactly when no element ID occurs twice, every element with a
\* matcher in Elements satisfies it and, in strict mode, the element IDs are
\* the keys of Elements; otherwise it returns success = false, and a
\* mismatching, missing or extra element is not reported as an error.
C24_SliceMatcher ==
    (matchCall.pc = "done" /\ matchCall.matcher = "SliceMatcher") =>
        LET call == matchCall IN
        /\ (call.result.success /\ ~call.result.err) <=> SliceMatches(call)
        /\ (NoDuplicateIDs(call.actual) /\ NoMatcherError(call)) => ~call.result.err

\* The item just processed was handled on the ordinary path: its node
\* exists and is not marked "GC in progress".
OrdinaryPathProcessed(id) ==
    /\ storeCall.id = id
    /\ uidToNode[id] # Absent
    /\ ~uidToNode[id].gcInProgress

\* Every owner of id has no node in the graph, or has deletionRequested
\* without the orphan finalizer.
EveryOwnerAbsent(id) ==
    \A r \in uidToNode[id].owners :
        \/ uidToNode[r.owner] = Absent
        \/ uidToNode[r.owner].deletionRequested /\ ~uidToNode[r.owner].orphan

\* C25 (as stated): on the ordinary path a Delete is issued for id if and
\* only if every owner of id is absent.
C25_DeleteIffEveryOwnerAbsent ==
    \A id \in Ids :
        OrdinaryPathProcessed(id) =>
            (storeCall.kind = "Delete" <=> EveryOwnerAbsent(id))

\* C25 (amended): on the ordinary path a Delete is issued for id if and
\* only if id has at least one owner and every owner of id is absent; no
\* Delete is issued for an id without owners.
C25_DeleteIffOwnedAndEveryOwnerAbsent ==
    \A id \in Ids :
        OrdinaryPathProcessed(id) =>
            (storeCall.kind = "Delete" <=>
                (uidToNode[id].owners # {} /\ EveryOwnerAbsent(id)))

\* C25 witness: a Delete has just been issued on the ordinary path for an
\* identity whose owner has a node in the graph with deletionRequested.
C25_Witness ==
    /\ storeCall.kind = "Delete"
    /\ \E id \in Ids :
          /\ OrdinaryPathProcessed(id)
          /\ uidToNode[id].owners # {}
          /\ \A r \in uidToNode[id].owners :
                /\ uidToNode[r.owner] # Absent
                /\ uidToNode[r.owner].deletionRequested

\* The item just processed was handled on the gcInProgress path.
GCPathProcessed(id) ==
    /\ storeCall.id = id
    /\ uidToNode[id] # Absent
    /\ uidToNode[id].gcInProgress

\* Every owner of id has a node marked "GC in progress".
EveryOwnerInGC(id) ==
    \A r \in uidToNode[id].owners :
        /\ uidToNode[r.owner] # Absent
        /\ uidToNode[r.owner].gcInProgress

\* C26 (as stated): for an id processed on the gcInProgress path while it
\* has live blocking dependents, the finalizer-removal patch is issued
\* exactly when id and every owner of id are gcInProgress; otherwise nothing
\* is issued.
C26_CycleBreakerIffEveryOwnerInGC ==
    \A id \in Ids :
        (GCPathProcessed(id) /\ ObservedBlockingDependents(id) # {}) =>
            /\ storeCall.kind = "PatchFinalizers" <=> EveryOwnerInGC(id)
            /\ storeCall.kind \in {"PatchFinalizers", None}

\* C26 (amended): for an id processed on the gcInProgress path while it has
\* live blocking dependents, the finalizer-removal patch is issued exactly
\* when id has at least one owner and id and every owner of id are
\* gcInProgress; otherwise nothing is issued.
C26_CycleBreakerIffOwnedAndEveryOwnerInGC ==
    \A id \in Ids :
        (GCPathProcessed(id) /\ ObservedBlockingDependents(id) # {}) =>
            /\ storeCall.kind = "PatchFinalizers" <=>
                  (uidToNode[id].owners # {} /\ EveryOwnerInGC(id))
            /\ storeCall.kind \in {"PatchFinalizers", None}

\* C26 witness: the finalizer-removal patch has just been issued for an
\* identity that still has a live blocking dependent, because the identity
\* and its owners are all gcInProgress.
C26_Witness ==
    /\ storeCall.kind = "PatchFinalizers"
    /\ \E id \in Ids :
          /\ GCPathProcessed(id)
          /\ ObservedBlockingDependents(id) # {}
          /\ uidToNode[id].owners # {}
          /\ EveryOwnerInGC(id)

\* The CycleBreaker takes no action for id.
NoCycleAt(id) == ~(uidToNode[id].owners # {} /\ EveryOwnerInGC(id))

\* C27: for an id processed on the gcInProgress path for which the
\* CycleBreaker took no action, the finalizer-removal patch is issued if and
\* only if no blocking dependent of id is present; when one is present no
\* store call is issued and every blocking dependent of id is in the
\* DirtyQueue, which never holds an identity twice.
C27_PatchIffNoBlockingDependent ==
    /\ \A id \in Ids :
          (GCPathProcessed(id) /\ NoCycleAt(id)) =>
              /\ storeCall.kind = "PatchFinalizers" <=>
                    ObservedBlockingDependents(id) = {}
              /\ ObservedBlockingDependents(id) # {} =>
                    /\ storeCall.kind = None
                    /\ ObservedBlockingDependents(id) \subseteq dirtyQueue.dirty
    /\ \A d \in Ids : SeqCount(dirtyQueue.queue, d) <= 1

\* C27 witness: an identity with a blocking and a non-blocking dependent
\* has been processed on the gcInProgress path: no patch was issued, the
\* blocking dependent waits in the queue, once, and the other one does not.
C27_Witness ==
    /\ storeCall.kind = None
    /\ \E id \in Ids :
          /\ GCPathProcessed(id)
          /\ NoCycleAt(id)
          /\ \E d \in ObservedBlockingDependents(id) :
                SeqCount(dirtyQueue.queue, d) = 1
          /\ \E e \in uidToNode[id].dependents \ ObservedBlockingDependents(id) :
                e \notin dirtyQueue.dirty

\* Some owner of id has a node marked "GC in progress", that is, was
\* observed with the collecting-garbage finalizer and a deletion timestamp.
SomeOwnerInGC(id) ==
    \E r \in uidToNode[id].owners :
        /\ uidToNode[r.owner] # Absent
        /\ uidToNode[r.owner].gcInProgress

OwnersInGC(id) ==
    IF uidToNode[id] = Absent THEN {}
    ELSE {o \in Ids : /\ \E r \in uidToNode[id].owners : r.owner = o
                      /\ uidToNode[o] # Absent
                      /\ uidToNode[o].gcInProgress}

\* C29: when a Deleted event of an object is applied, every owner of that
\* object whose node is gcInProgress is in the DirtyQueue afterwards.
C29_DeletedEnqueuesOwnersInGC ==
    [][\A id \in Ids :
         IngestsDeleted(id) => OwnersInGC(id) \subseteq dirtyQueue'.dirty]_vars

\* C29 witness: the Deleted event of the last dependent of an owner that is
\* gcInProgress is about to be applied, and the owner is not in the queue.
C29_Witness ==
    \E id \in Ids :
        /\ watch[id] # <<>>
        /\ Head(watch[id]).type = "Deleted"
        /\ \E o \in OwnersInGC(id) :
              /\ o \notin Items(dirtyQueue)
              /\ uidToNode[o].dependents = {id}

\* An Added or Modified event of id is applied in this step.
IngestsSnapshot(id) ==
    /\ watch[id] # <<>>
    /\ Head(watch[id]).type \in {"Added", "Modified"}
    /\ watch'[id] = Tail(watch[id])

\* C30: an Added or Modified event whose snapshot has the collecting-garbage
\* finalizer and a deletion timestamp leaves the node marked gcInProgress
\* and the identity in the DirtyQueue; a snapshot lacking either one leaves
\* the node with the snapshot's owners and not marked gcInProgress.
C30_SnapshotSetsGCInProgress ==
    [][\A id \in Ids :
         IngestsSnapshot(id) =>
            LET obj == Head(watch[id]).obj IN
            /\ uidToNode'[id] # Absent
            /\ IF HasGCFinalizer(obj) /\ obj.delTs
               THEN /\ uidToNode'[id].gcInProgress
                    /\ id \in dirtyQueue'.dirty
               ELSE /\ ~uidToNode'[id].gcInProgress
                    /\ uidToNode'[id].owners = obj.owners
                    /\ ~uidToNode'[id].virtual]_vars

\* C30 witness: the Added event of an object with owners, delivered with
\* the finalizer and a deletion timestamp, has just been applied as the first
\* event of that object: its node has the snapshot's owners and is marked
\* gcInProgress, and the identity waits in the queue.
C30_Witness ==
    /\ storeCall = NoStoreCall
    /\ \E id \in Ids :
          /\ watch[id] = <<>>
          /\ store[id] # Absent
          /\ HasGCFinalizer(store[id])
          /\ uidToNode[id] # Absent
          /\ uidToNode[id].gcInProgress
          /\ uidToNode[id].owners = store[id].owners
          /\ uidToNode[id].owners # {}
          /\ id \in SeqSet(dirtyQueue.queue)

\* The store call just issued failed in a way that calls for a retry: a
\* Conflict, a Timeout, or a NotFound answer to a patch.
FailedCall(sc) ==
    \/ sc.result \in {"Conflict", "Timeout"}
    \/ sc.result = "NotFound" /\ sc.kind # "Delete"

\* A worker completes the processing of id in this step.
Completes(id) ==
    \E w \in GCWorkers : workerItem[w] = id /\ workerItem'[w] = None

\* What a completed processing step does with the outcome of its store call:
\* a failure puts the identity back into the queue, a NotFound answer to a
\* Delete does not, and the delete entry point reports nothing.
OutcomeHandled ==
    \A id \in Ids :
        Completes(id) =>
            /\ FailedCall(storeCall') => id \in SeqSet(dirtyQueue'.queue)
            /\ (storeCall'.kind = "Delete" /\ storeCall'.result = "NotFound") =>
                  (id \in dirtyQueue'.dirty <=> id \in dirtyQueue.dirty)
            /\ apiResponse' = NoResponse

\* C31: a NotFound answer to a Delete causes no retry; a Conflict or any
\* other failure of a delete or patch puts the identity back into the
\* DirtyQueue, from where it is eventually taken for processing again; no
\* such error reaches the caller of the delete entry point.
C31_StoreCallOutcomes ==
    /\ [][OutcomeHandled]_vars
    /\ \A id \in Ids :
          (storeCall.id = id /\ FailedCall(storeCall))
              ~> (\E w \in GCWorkers : workerItem[w] = id)

\* C31 witness: a Delete answered NotFound has just been completed and the
\* identity is not in the queue.
C31_Witness ==
    /\ storeCall.kind = "Delete"
    /\ storeCall.result = "NotFound"
    /\ storeCall.id \notin Items(dirtyQueue)

\* The owners of id that exist: they have a node and count as neither
\* absent nor "GC in progress".
ExistingOwners(id) ==
    {r.owner : r \in {x \in uidToNode[id].owners :
                        /\ uidToNode[x.owner] # Absent
                        /\ ~uidToNode[x.owner].deletionRequested
                        /\ ~uidToNode[x.owner].gcInProgress}}

\* The owners of id that are marked "GC in progress".
OwnersInGCOf(id) ==
    {r.owner : r \in {x \in uidToNode[id].owners :
                        /\ uidToNode[x.owner] # Absent
                        /\ uidToNode[x.owner].gcInProgress}}

\* The item just processed had owners that exist and owners in synchronous
\* GC: no Delete was issued, and the ownerReferences to the owners in
\* synchronous GC were removed.
SharedOwnersPatched ==
    \A id \in Ids :
        (/\ OrdinaryPathProcessed(id)
         /\ ExistingOwners(id) # {}
         /\ OwnersInGCOf(id) # {}) =>
            /\ storeCall.kind = "PatchOwnerReferences"
            /\ storeCall.refs = OwnersInGCOf(id)

\* The ownerReferences of the item to the owners in o's set were removed
\* from the stored object.
ReferencesRemoved(o) ==
    /\ storeCall.kind = "PatchOwnerReferences"
    /\ storeCall.result = "ok"
    /\ o \in storeCall.refs

\* Once its reference is removed, the object stops counting as a blocking
\* dependent of the owner.
StopsBlocking ==
    \A o \in Ids : \A d \in Ids :
        (ReferencesRemoved(o) /\ storeCall.id = d)
            ~> (d \notin ObservedBlockingDependents(o))

\* C32: an object with owners that exist and owners in synchronous GC is
\* not deleted; its ownerReferences to the owners in synchronous GC are
\* removed, it then stops counting as a blocking dependent of those owners,
\* and their collecting-garbage finalizers are eventually removed.
C32_SharedOwnerUnblocked ==
    /\ []SharedOwnersPatched
    /\ StopsBlocking
    /\ \A o \in Ids :
          ReferencesRemoved(o) ~> ~HasGCFinalizer(store[o])

\* The node of o has no owners.
Root(o) == uidToNode[o] # Absent /\ uidToNode[o].owners = {}

\* A root processed on the gcInProgress path with a live blocking dependent
\* gets no store call.
RootLeftAlone ==
    \A id \in Ids :
        (GCPathProcessed(id) /\ Root(id) /\ ObservedBlockingDependents(id) # {})
            => storeCall.kind = None

\* C33: the CycleBreaker condition does not hold vacuously for a
\* gcInProgress node without owners: processing it while it has a live
\* blocking dependent issues no store call, and the finalizer of a root is
\* removed only when it has no live blocking dependent.
C33_RootKeepsFinalizer ==
    /\ []RootLeftAlone
    /\ [][\A o \in Ids :
            (FinalizerRemoved(o) /\ Root(o)) =>
                ObservedBlockingDependents(o) = {}]_vars

\* C33 witness: a gcInProgress root with a live blocking dependent has just
\* been processed and still carries the finalizer in the store.
C33_Witness ==
    \E id \in Ids :
        /\ GCPathProcessed(id)
        /\ Root(id)
        /\ \E d \in ObservedBlockingDependents(id) : store[d] # Absent
        /\ storeCall.kind = None
        /\ HasGCFinalizer(store[id])

\* C34: "every owner is absent" does not hold vacuously: no Delete is
\* issued for a node that has no owners and is not gcInProgress.
C34_NoDeleteWithoutOwners ==
    \A id \in Ids :
        (OrdinaryPathProcessed(id) /\ Root(id)) => storeCall.kind # "Delete"

\* C34 witness: a node without owners that is not gcInProgress has just
\* been processed, and it is still in the store without a deletion
\* timestamp.
C34_Witness ==
    \E id \in Ids :
        /\ OrdinaryPathProcessed(id)
        /\ Root(id)
        /\ storeCall.kind = None
        /\ store[id] # Absent
        /\ ~store[id].delTs

\* The entries met from cacheHead along the next pointers (at most one more
\* than can be alive, so that a walk that does not end is seen).
RECURSIVE ListFrom(_, _)
ListFrom(e, n) ==
    IF e = NilEntry \/ n = 0 THEN <<>>
    ELSE <<e>> \o ListFrom(entries[e].next, n - 1)

CacheList == ListFrom(cacheHead, MaxEntries + 1)

Cached == {cache[i] : i \in AuditIDs} \ {NilEntry}

SentEntries(ss) == {ss[k].entry : k \in 1..Len(ss)}

\* The cache list is ordered by the timestamp of the entries' first event.
CacheListOrdered ==
    \A k \in 1..(Len(CacheList) - 1) :
        timestamp(entries, CacheList[k]) <= timestamp(entries, CacheList[k + 1])

\* What expire() leaves behind: every cached entry older than the ttl went
\* to the delegate, and none is left in the cache.
Flushed ==
    Expire =>
        /\ \A e \in Cached :
              timestamp(entries, e) + ttl < clock => e \in SentEntries(sent')
        /\ \A i \in AuditIDs :
              cache'[i] # NilEntry =>
                  ~(timestamp(entries', cache'[i]) + ttl < clock)

\* C35: the cache list is ordered by first-event timestamp from cacheHead
\* to cacheTail, and after expire() no entry left in the cache is older than
\* the ttl: every such entry has been flushed to the delegate.
C35_OrderedAndFlushed ==
    /\ []CacheListOrdered
    /\ [][Flushed]_vars

\* C35 witness: expire() has just flushed two entries and left a younger
\* one in the cache.
C35_Witness ==
    /\ Len(sent) = 2
    /\ cacheHead # NilEntry
    /\ cache # [i \in AuditIDs |-> NilEntry]

\* C36: the list from cacheHead holds exactly the entries of the cache map,
\* each once and under its audit ID, prev and next agree, cacheTail is the
\* last element, and cacheHead and cacheTail are nil exactly when the cache
\* is empty.
C36_ListMatchesMap ==
    /\ Len(CacheList) <= MaxEntries
    /\ SentEntries([k \in 1..Len(CacheList) |-> [entry |-> CacheList[k]]]) = Cached
    /\ Len(CacheList) = Cardinality(Cached)
    /\ \A i \in AuditIDs :
          cache[i] # NilEntry => entryID(entries, cache[i]) = i
    /\ \A k \in 1..Len(CacheList) :
          /\ entries[CacheList[k]].prev =
                IF k = 1 THEN NilEntry ELSE CacheList[k - 1]
          /\ entries[CacheList[k]].next =
                IF k = Len(CacheList) THEN NilEntry ELSE CacheList[k + 1]
    /\ cacheTail = IF CacheList = <<>> THEN NilEntry
                   ELSE CacheList[Len(CacheList)]
    /\ (cacheHead = NilEntry) <=> (Cached = {})
    /\ (cacheTail = NilEntry) <=> (Cached = {})

\* C36 witness: an entry has just been sent out of a list of three.
C36_Witness ==
    /\ Len(sent) = 1
    /\ Len(CacheList) = 2
    /\ cacheHead # cacheTail

\* A delivery takes the entry out of the cache, and an entry leaves the
\* cache only by a delivery.
DeliveredOnce ==
    /\ \A e \in SentEntries(sent') :
          /\ e \in Cached
          /\ \A i \in AuditIDs : cache'[i] # e
          /\ Cardinality({k \in 1..Len(sent') : sent'[k].entry = e}) = 1
    /\ \A i \in AuditIDs :
          (cache[i] # NilEntry /\ cache'[i] # cache[i]) =>
              cache[i] \in SentEntries(sent')

\* An event for an audit ID without a cached entry starts an entry and
\* nothing goes to the delegate.
StartsEntry ==
    (Injest /\ cache[Head(buffer).id] = NilEntry) =>
        /\ cache'[Head(buffer).id] # NilEntry
        /\ entries'[cache'[Head(buffer).id]].events = <<Head(buffer)>>
        /\ sent' = <<>>

\* C37: every cache entry is delivered to the delegate exactly once, by
\* completion or by expiry, and is absent from the cache from then on; an
\* event for an audit ID with no cached entry starts a new entry and is not
\* forwarded at ingest time.
C37_DeliveredExactlyOnce ==
    /\ [][DeliveredOnce /\ StartsEntry]_vars
    /\ \A i \in AuditIDs :
          (cache[i] # NilEntry)
              ~> (\E k \in 1..Len(sent) : sent[k].event.id = i)

\* The Tickers met from the head of a period's list along next.
RECURSIVE TickerList(_, _)
TickerList(t, n) ==
    IF t = NoTicker \/ n = 0 THEN {}
    ELSE {t} \cup TickerList(ticker[t].next, n - 1)

Linked(period) == TickerList(tickers[period], MaxTickers)

\* No Ticker gets more than one Tick from one tick(), only Tickers whose
\* period divides the count get one, no non-stopped Ticker is unlinked, a
\* select is never waited at, and after tick() the Tickers it has read as
\* stopped are unlinked.
TickInvariant ==
    /\ \A t \in Allocated :
          /\ offers[t] <= 1
          /\ offers[t] = 1 => count % ticker[t].period = 0
          /\ ~ticker[t].stopped => t \in Linked(ticker[t].period)
    /\ tick.pc = "send" => ENABLED TickSend
    /\ tick.pc = "idle" =>
          \A t \in observed : t \notin Linked(ticker[t].period)

\* The step that ends tick(): every non-stopped Ticker whose period divides
\* the count has been offered a Tick.
TickReturns ==
    (tick.pc = "range" /\ tick'.pc = "idle") =>
        \A t \in Allocated :
            (~ticker[t].stopped /\ count % ticker[t].period = 0) =>
                offers[t] = 1

\* A select sends to no Ticker read as stopped before, and the Tick is
\* delivered exactly when a receiver was waiting.
TickOffered ==
    \A t \in Allocated :
        offers'[t] > offers[t] =>
            /\ t \notin observed
            /\ sendResult' = [to |-> t, delivered |-> t \in receiving]

ReceiveOutcome ==
    ReceiveErr =>
        IF ~errCh.closed /\ errCh.value = "error"
        THEN check'.pc = "returned" /\ check'.result = "error"
        ELSE check'.pc = "loop" /\ check'.result = "none"

\* A poll returns nil when every URL is healthy, and goes on with the loop
\* otherwise.
PollOutcome ==
    \A healthy \in SUBSET URLs :
        Poll(healthy) =>
            IF healthy = URLs
            THEN check'.pc = "returned" /\ check'.result = "nil"
            ELSE check'.pc = "loop" /\ check'.result = "none"

\* The timeout error is returned by the loop test only, once endTime has
\* come, and a result is returned once.
TimeoutOutcome ==
    /\ (check'.result = "timeout" /\ check.result # "timeout") =>
          (check.pc = "loop" /\ wallClock >= check.endTime)
    /\ check.result # "none" => check' = check

\* C39: readinessCheck returns a non-nil error received on errCh when it is
\* received; a nil value or the closing of errCh does not make it return,
\* and the closed channel is received from once only; it returns nil when a
\* poll finds every URL healthy; it returns the timeout error only once
\* serverStartTimeout has passed, and it always returns in the end.
C39_ReadinessCheck ==
    /\ [](closedReads <= 1)
    /\ [][ReceiveOutcome /\ PollOutcome /\ TimeoutOutcome]_vars
    /\ <>(check.pc = "returned")

\* C39 witness: errCh was found closed, the call went on polling and
\* returned nil when a poll found every URL healthy.
C39_Witness ==
    /\ closedReads = 1
    /\ check.pc = "returned"
    /\ check.result = "nil"

\* The fetch errors that are not to be retried: any error when
\* DisableRetries is set, NotFound unless RetryNotFound is set, and any
\* other error that is neither a timeout, too-many-requests nor carrying a
\* Retry-After delay.
NotRetryable(err, o) ==
    \/ o.DisableRetries
    \/ err.class = "NotFound" /\ ~o.RetryNotFound
    \/ err.class \notin {"Timeout", "TooManyRequests", "NotFound"} /\ err.delay = 0

\* nil is returned only after condition returned true on a fetched object.
NilOnlyWhenConditionTrue ==
    (poll.pc = "returned" /\ poll.result = NoError) =>
        (poll.done /\ poll.fetched /\ poll.lastFetchError = NoError)

\* A fetch error that is not to be retried ends the polling in that step.
EndsAtOnce ==
    \A f \in Fetches :
        (Fetch(f) /\ ~f.obj /\ NotRetryable(f.err, opts)) =>
            (poll'.pc = "return" /\ poll'.err = f.err /\ ~poll'.timedOut)

\* After a timeout the last fetch error is returned when the last fetch
\* failed, and a timeout error otherwise.
TimeoutReturn ==
    (poll.pc = "returned" /\ poll.timedOut) =>
        IF poll.lastFetchError # NoError
        THEN poll.result = poll.lastFetchError
        ELSE IsTimeout(poll.result)

\* A fetch error that ended the polling is returned wrapped.
ReturnedWrapped ==
    (/\ poll.pc = "returned"
     /\ ~poll.timedOut
     /\ poll.lastFetchError # NoError) =>
        poll.result = Wrapped(poll.lastFetchError)

\* C40: ForObjectCondition returns nil only if condition returned true on a
\* fetched object; a fetch error that is not to be retried ends the polling
\* at once and is returned wrapped; on timeout the last fetch error is
\* returned when the last fetch failed, and a timeout error otherwise.
C40_ForObjectCondition ==
    /\ [](NilOnlyWhenConditionTrue /\ TimeoutReturn /\ ReturnedWrapped)
    /\ [][EndsAtOnce]_vars

=============================================================================
